---------------------------- MODULE Spec2Model ----------------------------
(***************************************************************************)
(* gulp-dependents: the dependency tracker (DependencyTracker.ts) and the  *)
(* parser it calls, as a state machine.                                    *)
(*                                                                         *)
(* The state is the tracker's two private objects (trackedFilePaths,       *)
(* dependencyMap) and the part of the file system that fs.existsSync       *)
(* reads.  One action models one whole call of updateAndGetDependents;     *)
(* the file system is changed by the environment between calls.            *)
(***************************************************************************)
EXTENDS Naturals, Sequences, FiniteSets, TLC

(***************************************************************************)
(* Bounds of the model.                                                    *)
(***************************************************************************)
\* The largest number of dependency paths the parser returns for one file.
MaxImports == 2

\* The depth of nested calls of the inner getDependentFilePaths at which the
\* runtime gives up with "RangeError: Maximum call stack size exceeded".
\* It exceeds the number of paths, so only a walk that repeats a path (an
\* import cycle) can reach it.
StackLimit == 6

(***************************************************************************)
(* Paths.  A path is a string; Paths are normalized absolute paths, and    *)
(* AliasOfA is a spelling of A that path.normalize changes.                *)
(***************************************************************************)
A == "/p/a.scss"
B == "/p/b.scss"
C == "/p/c.scss"
N == "/p/n.txt"
AliasOfA == "/p/./a.scss"

Paths == {A, B, C, N}

\* The sets of files a build session is about: three stylesheets, or two
\* stylesheets and a file of an extension the parser has no configuration for.
Projects == { {A, B, C}, {A, B, N} }

\* path.normalize on these spellings: a "." segment is dropped.
normalize(p) == IF p = AliasOfA THEN A ELSE p

\* path.extname(p).toLowerCase()
extname(p) == IF normalize(p) \in {A, B, C} THEN ".scss" ELSE ".txt"

VARIABLES
    project,            \* the files of this build session (never changes)
    trackedFilePaths,   \* the set of keys of this.trackedFilePaths
    dependencyMap,      \* function: dependency path -> sequence of dependents,
                        \* in the order the keys were inserted
    exists,             \* the paths for which fs.existsSync is true
    call,               \* the file of the call of updateAndGetDependents whose
                        \* result the caller holds, NoFile between calls
    wasTracked,         \* shouldReturnDependents of that call
    ret,                \* what that call returned
    pruned,             \* the missing dependents that call met in its traversal
    forwardRef,         \* history: per path B that was imported while it was
                        \* missing and untracked and has not been updated
                        \* since, the importing file
    firstFor,           \* history: the forwardRef entry of the path of the
                        \* last call ("" when it had none)
    pushed,             \* what the running transform function has pushed to
                        \* the stream, in order
    log,                \* what the running stream function has logged
    defaultConfig,      \* the exported object defaultConfig of the parser
    thisConfig,         \* this.config of the DependencyParser made last
    constructed,        \* how its constructor ended: "no" before the first
                        \* one, "ok", or "Error"
    extraction,         \* the last call of its getDependencyFilePaths: the
                        \* file and what the call gave back
    custom,             \* the configuration its constructor was given
    dependencyTracker,  \* the static dependencyTracker of the plugin: "null"
                        \* or "created"
    streams,            \* how often the plugin function has returned a stream
    mapAtRun            \* history: the dependency map as it was when the
                        \* plugin function returned its latest stream

trackerVars == <<project, trackedFilePaths, dependencyMap, exists, call,
                 wasTracked, ret, pruned, forwardRef, firstFor, pushed, log>>

parserVars == <<defaultConfig, thisConfig, constructed, extraction, custom>>

pluginVars == <<dependencyTracker, streams, mapAtRun>>

vars == <<trackerVars, parserVars, pluginVars>>

\* The keys of DependencyParser.config that hold a configuration: those of
\* the parser the plugin function constructed, and where the tracker is
\* looked at with the parser of the default configuration, the keys that
\* the constructor takes from defaultConfig.
ConfiguredExtensions ==
    IF constructed = "ok"
    THEN { key \in DOMAIN thisConfig : thisConfig[key].kind # "null" }
    ELSE {".pcss", ".less", ".scss", ".sass"}

(***************************************************************************)
(* Files handed to the tracker.  isNull is file.isNull(); imports is the   *)
(* set of absolute paths the parser extracts from file.contents (empty     *)
(* where the parser is not called or has no configuration); throws says    *)
(* that a parser step throws on these contents (a step may be a function   *)
(* of the custom configuration).                                           *)
(***************************************************************************)
FilePathsOf(pr) ==
    pr \cup (IF A \in pr THEN {AliasOfA} ELSE {})

ImportsOf(pr, p, n) ==
    IF n \/ extname(p) \notin ConfiguredExtensions THEN { {} }
    ELSE { s \in SUBSET pr : Cardinality(s) <= MaxImports }

FilesOf(pr) ==
    UNION { UNION { { [path |-> p, isNull |-> n, imports |-> i, throws |-> FALSE] :
                        i \in ImportsOf(pr, p, n) } :
                    n \in BOOLEAN } :
            p \in FilePathsOf(pr) }
    \cup { [path |-> p, isNull |-> FALSE, imports |-> {}, throws |-> TRUE] :
              p \in { q \in FilePathsOf(pr) :
                         extname(q) \in ConfiguredExtensions } }

\* Every file of every project, and the files of one project.
AllFiles == UNION { FilesOf(pr) : pr \in Projects }

NoFile == [path |-> "", isNull |-> TRUE, imports |-> {}, throws |-> FALSE]

\* The argument of a call updateAndGetDependents(null).
NullArgument == [path |-> "<null>", isNull |-> TRUE, imports |-> {}, throws |-> FALSE]

\* What the stream functions of the plugin are called with when the stream
\* ends (the flush function gets no file).
EndOfStream == [path |-> "<end>", isNull |-> TRUE, imports |-> {}, throws |-> FALSE]

IsFile(f) == f \notin {NoFile, NullArgument, EndOfStream}

\* What a call of updateAndGetDependents gives back: null, a list of files
\* (their paths, in the order of the list), or what it throws: the runtime's
\* RangeError, the Error for a null argument, or what the parser threw.
RetNull == [kind |-> "null", files |-> << >>]
RetFiles(s) == [kind |-> "files", files |-> s]
RetRangeError == [kind |-> "RangeError", files |-> << >>]
RetError == [kind |-> "Error", files |-> << >>]
RetParserError == [kind |-> "ParserError", files |-> << >>]
RetNone == [kind |-> "none", files |-> << >>]

\* The call returned to its caller (it did not throw).
Returned(r) == r.kind \in {"null", "files"}

\* What the diagnostics write to the console: nothing, the list of
\* logDependents, or the map of logDependencyMap.
NoLog == [kind |-> "none", tracked |-> FALSE, paths |-> << >>, map |-> << >>]

(***************************************************************************)
(* Helpers on JS objects used as ordered sets.                             *)
(***************************************************************************)
Range(s) == { s[i] : i \in 1..Len(s) }

\* obj[k] = true: a new key goes last, an existing key keeps its place.
SetKey(s, k) == IF k \in Range(s) THEN s ELSE Append(s, k)

\* delete obj[k]
DeleteKey(s, k) == SelectSeq(s, LAMBDA x : x # k)

(***************************************************************************)
(* DependencyParser.getDependencyFilePaths, as the tracker sees it: null   *)
(* for an extension without configuration, else the list of paths, unless  *)
(* a step throws or there are no contents to read (file.contents is null   *)
(* and parseFile calls toString on it).                                    *)
(***************************************************************************)
\* Faulty variant: a file of an unconfigured extension is parsed as one without
\* dependencies instead of being reported as unknown.
getDependencyFilePaths_NeverNull(file) ==
    [isNull |-> FALSE, throws |-> file.throws, paths |-> file.imports]

getDependencyFilePaths(file) ==
    IF extname(file.path) \notin ConfiguredExtensions
    THEN [isNull |-> TRUE, throws |-> FALSE, paths |-> {}]
    ELSE [isNull |-> FALSE, throws |-> file.throws \/ file.isNull,
          paths |-> file.imports]

(***************************************************************************)
(* The steps of updateAndGetDependents.                                    *)
(***************************************************************************)
\* Faulty variant: a null argument is ignored, the call returns null.
rejectNull_Silently(tracked, map) ==
    [tracked |-> tracked, map |-> map, ret |-> RetNull,
     should |-> FALSE, met |-> {}]

\* if (file == null) throw new Error(...): nothing has been touched yet.
rejectNull(tracked, map) ==
    [tracked |-> tracked, map |-> map, ret |-> RetError,
     should |-> FALSE, met |-> {}]

\* Faulty variant: the flag is read after the path was marked as tracked.
shouldReturnDependents_AfterMarking(tracked, filePath) ==
    filePath \in tracked \cup {filePath}

\* const shouldReturnDependents = this.trackedFilePaths[filePath];
shouldReturnDependents(tracked, filePath) == filePath \in tracked

\* Faulty variant: the set is started anew with the path.
markTracked_Replace(tracked, filePath) == {filePath}

\* Faulty variant: the updated path is not marked.
markTracked_Nothing(tracked, filePath) == tracked

\* this.trackedFilePaths[filePath] = true;
markTracked(tracked, filePath) == tracked \cup {filePath}

\* Faulty variant: a file without contents is parsed too.
hasContent_Always(file) == TRUE

\* !file.isNull()
hasContent(file) == ~file.isNull

\* Faulty variant: the file is deleted from every entry, but an entry left
\* without dependents stays in the map.
removeExistingMappings_KeepsEmptyEntries(map, filePath) ==
    [k \in DOMAIN map |-> DeleteKey(map[k], filePath)]

\* Faulty variant: the mappings of the file are not removed before it is parsed.
removeExistingMappings_Nothing(map, filePath) == map

\* "Remove existing dependency mappings for the file.": the file is deleted
\* from every entry, and an entry left without dependents is deleted.
removeExistingMappings(map, filePath) ==
    LET kept == { k \in DOMAIN map : DeleteKey(map[k], filePath) # << >> }
    IN  [k \in kept |-> DeleteKey(map[k], filePath)]

\* Faulty variant: a missing dependency is not marked as tracked.
missingDependencies_None(tracked, fs, dependencyFilePaths) == {}

\* Faulty variant: every untracked dependency is marked, on disk or not.
missingDependencies_AlsoExisting(tracked, fs, dependencyFilePaths) ==
    { d \in dependencyFilePaths : d \notin tracked }

\* The paths the loop over the parsed dependencies marks as tracked: those
\* neither tracked nor present in the file system.
missingDependencies(tracked, fs, dependencyFilePaths) ==
    { d \in dependencyFilePaths : d \notin tracked /\ d \notin fs }

\* "Add the dependency mapping.": dependencyMap[d][filePath] = true for each d.
addMappings(map, dependencyFilePaths, filePath) ==
    [k \in DOMAIN map \cup dependencyFilePaths |->
        IF k \in dependencyFilePaths
        THEN SetKey(IF k \in DOMAIN map THEN map[k] ELSE << >>, filePath)
        ELSE map[k]]

(***************************************************************************)
(* getDependentFilePaths and its inner recursive function.  st is the      *)
(* state the inner function shares with its caller: the dependency map,    *)
(* the keys of dependentFilePaths in insertion order, whether the call     *)
(* stack has overflowed (the exception unwinds every frame), and, as a     *)
(* record of the traversal, the missing dependents it met.                 *)
(***************************************************************************)
\* Faulty variant: the deleted file is taken out of the entries, but an entry left
\* without dependents stays in the map.
pruneDeleted_KeepsEmptyEntries(map, dependentFilePath) ==
    [k \in DOMAIN map |-> DeleteKey(map[k], dependentFilePath)]

\* Faulty variant: the deleted file is left in the map.
pruneDeleted_Nothing(map, dependentFilePath) == map

\* Faulty variant: the deleted file is taken out of one entry only.
pruneDeleted_FromOneEntry(map, dependentFilePath) ==
    LET holding == { k \in DOMAIN map : dependentFilePath \in Range(map[k]) }
    IN  IF holding = {} THEN map
        ELSE LET k0 == CHOOSE k \in holding : TRUE
                 rest == DeleteKey(map[k0], dependentFilePath)
             IN  IF rest = << >>
                 THEN [k \in DOMAIN map \ {k0} |-> map[k]]
                 ELSE [map EXCEPT ![k0] = rest]

\* "The file has been deleted and is therefore no longer a dependent.": it
\* is deleted from every entry, and an entry left without dependents too.
pruneDeleted(map, dependentFilePath) ==
    LET kept == { k \in DOMAIN map : DeleteKey(map[k], dependentFilePath) # << >> }
    IN  [k \in kept |-> DeleteKey(map[k], dependentFilePath)]

\* Faulty variant: the file system is not asked.
shouldInclude_Always(fs, dependentFilePath, checkFilesExist) == TRUE

\* fs.existsSync(dependentFilePath), when checkFilesExist asks for it
shouldInclude(fs, dependentFilePath, checkFilesExist) ==
    ~checkFilesExist \/ dependentFilePath \in fs

RECURSIVE innerGetDependentFilePaths(_, _, _, _, _, _)
RECURSIVE forEachDependent(_, _, _, _, _, _)

\* The body of the for loop over Object.keys(dependencyMap[filePath]); keys
\* is the rest of the snapshot of the keys taken when the loop started.
forEachDependent(st, keys, depth, fs, recursive, checkFilesExist) ==
    IF keys = << >> \/ st.overflow THEN st
    ELSE LET dependentFilePath == Head(keys) IN
         IF shouldInclude(fs, dependentFilePath, checkFilesExist)
         THEN LET added == [st EXCEPT !.result = SetKey(@, dependentFilePath)]
                  after == IF recursive
                           THEN innerGetDependentFilePaths(added, dependentFilePath,
                                    depth + 1, fs, recursive, checkFilesExist)
                           ELSE added
              IN  forEachDependent(after, Tail(keys), depth, fs, recursive, checkFilesExist)
         ELSE forEachDependent(
                  [st EXCEPT !.map = pruneDeleted(@, dependentFilePath),
                             !.met = @ \cup {dependentFilePath}],
                  Tail(keys), depth, fs, recursive, checkFilesExist)

innerGetDependentFilePaths(st, filePath, depth, fs, recursive, checkFilesExist) ==
    IF depth > StackLimit THEN [st EXCEPT !.overflow = TRUE]
    ELSE IF filePath \in DOMAIN st.map
         THEN forEachDependent(st, st.map[filePath], depth, fs, recursive, checkFilesExist)
         ELSE st

getDependentFilePaths(map, fs, filePath, recursive, checkFilesExist) ==
    innerGetDependentFilePaths(
        [map |-> map, result |-> << >>, overflow |-> FALSE, met |-> {}],
        filePath, 1, fs, recursive, checkFilesExist)

(***************************************************************************)
(* updateAndGetDependents(file) for a file that is not null: the tracker's *)
(* state after the call, what the call returns (or throws), and for the    *)
(* record its shouldReturnDependents and the missing dependents it met.    *)
(***************************************************************************)
\* "Return the set of files that depend on the current file.": found is what
\* getDependentFilePaths left; a RangeError thrown in it leaves the call.
returnDependents(tracked, found) ==
    [tracked |-> tracked, map |-> found.map,
     ret |-> IF found.overflow THEN RetRangeError ELSE RetFiles(found.result),
     should |-> TRUE, met |-> found.met]

\* The end of the call: null on a first sighting, else the traversal.
finishUpdate(tracked, map, fs, filePath, should) ==
    IF ~should
    THEN [tracked |-> tracked, map |-> map, ret |-> RetNull,
          should |-> FALSE, met |-> {}]
    ELSE returnDependents(tracked,
                          getDependentFilePaths(map, fs, filePath, TRUE, TRUE))

\* "Only parse the file if it has non-null content.": map is the map with the
\* file's old mappings removed, parsed what the parser returned.  What the
\* parser throws leaves the call at once, with the path marked and the old
\* mappings removed.
parseAndFinish(tracked, map, fs, filePath, should, parsed) ==
    IF parsed.isNull
    THEN [tracked |-> tracked, map |-> map, ret |-> RetNull,
          should |-> should, met |-> {}]
    ELSE IF parsed.throws
    THEN [tracked |-> tracked, map |-> map, ret |-> RetParserError,
          should |-> should, met |-> {}]
    ELSE finishUpdate(tracked \cup missingDependencies(tracked, fs, parsed.paths),
                      addMappings(map, parsed.paths, filePath),
                      fs, filePath, should)

\* The call from the point where the path is normalized.
updateNormalized(tracked, map, fs, file, filePath) ==
    IF ~hasContent(file)
    THEN finishUpdate(markTracked(tracked, filePath), map, fs, filePath,
                      shouldReturnDependents(tracked, filePath))
    ELSE parseAndFinish(markTracked(tracked, filePath),
                        removeExistingMappings(map, filePath),
                        fs, filePath,
                        shouldReturnDependents(tracked, filePath),
                        getDependencyFilePaths(file))

updateOutcome(tracked, map, fs, file) ==
    IF file = NullArgument
    THEN rejectNull(tracked, map)
    ELSE updateNormalized(tracked, map, fs, file, normalize(file.path))

\* The history variables, as the words of the claims define them (they do
\* not read what the code decided).
IsParsed(file) ==
    /\ ~file.isNull
    /\ extname(file.path) \in ConfiguredExtensions
    /\ ~file.throws

NewForwardRefs(file) ==
    IF IsParsed(file)
    THEN { d \in file.imports :
             /\ d \notin trackedFilePaths \cup {normalize(file.path)}
             /\ d \notin exists }
    ELSE {}

History(file) ==
    LET filePath == normalize(file.path)
        new == NewForwardRefs(file)
        kept == (DOMAIN forwardRef \cup new) \ {filePath}
    IN  /\ forwardRef' = [d \in kept |->
                             IF d \in DOMAIN forwardRef THEN forwardRef[d]
                             ELSE filePath]
        /\ firstFor' = IF filePath \in DOMAIN forwardRef
                       THEN forwardRef[filePath] ELSE ""

updateAndGetDependents(file) ==
    /\ call = NoFile
    /\ \E out \in { updateOutcome(trackedFilePaths, dependencyMap, exists, file) } :
        /\ trackedFilePaths' = out.tracked
        /\ dependencyMap' = out.map
        /\ ret' = out.ret
        /\ call' = file
        /\ wasTracked' = out.should
        /\ pruned' = out.met
        /\ History(file)
        /\ UNCHANGED <<project, exists, pushed, log, parserVars, pluginVars>>

(***************************************************************************)
(* The diagnostics of the tracker.  Each is given as what it leaves in the *)
(* dependency map and what it writes to the console.                       *)
(***************************************************************************)
\* Faulty variant: the traversal of logDependents checks the file system.
logDependentsOutcome_Checking(tracked, map, fs, filePath, recursive) ==
    LET found == IF recursive
                 THEN getDependentFilePaths(map, fs, filePath, recursive, TRUE)
                 ELSE [map |-> map,
                       result |-> IF filePath \in DOMAIN map THEN map[filePath]
                                  ELSE << >>,
                       overflow |-> FALSE, met |-> {}]
    IN  [tracked |-> tracked, map |-> found.map, overflow |-> found.overflow,
         log |-> IF found.overflow THEN NoLog
                 ELSE [kind |-> "dependents", tracked |-> filePath \in tracked,
                       paths |-> found.result, map |-> << >>]]

\* logDependents(filePath, recursive): the traversal without the check of
\* the file system, or the keys of the entry of filePath.
logDependentsOutcome(tracked, map, fs, filePath, recursive) ==
    LET found == IF recursive
                 THEN getDependentFilePaths(map, fs, filePath, recursive, FALSE)
                 ELSE [map |-> map,
                       result |-> IF filePath \in DOMAIN map THEN map[filePath]
                                  ELSE << >>,
                       overflow |-> FALSE, met |-> {}]
    IN  [tracked |-> tracked, map |-> found.map, overflow |-> found.overflow,
         log |-> IF found.overflow THEN NoLog
                 ELSE [kind |-> "dependents", tracked |-> filePath \in tracked,
                       paths |-> found.result, map |-> << >>]]

\* logDependencyMap(): every key with its dependents.
logDependencyMapOutcome(tracked, map) ==
    [tracked |-> tracked, map |-> map,
     log |-> [kind |-> "map", tracked |-> FALSE, paths |-> << >>, map |-> map]]

(***************************************************************************)
(* The plugin.  Its transform function calls updateAndGetDependents (the   *)
(* action above), logs the dependents if pluginConfig.logDependents is set *)
(* for the stream the file came through, pushes the file, pushes each      *)
(* dependent and calls the callback.  What updateAndGetDependents throws   *)
(* leaves the transform function.  Its flush function logs the map if      *)
(* pluginConfig.logDependencyMap is set and calls the callback.            *)
(***************************************************************************)
logDependents ==
    /\ IsFile(call)
    /\ ret.kind = "files"
    /\ pushed = << >>
    /\ log = NoLog
    /\ \E out \in { logDependentsOutcome(trackedFilePaths, dependencyMap, exists,
                                         normalize(call.path), TRUE) } :
        /\ trackedFilePaths' = out.tracked
        /\ dependencyMap' = out.map
        /\ log' = out.log
        /\ ret' = IF out.overflow THEN RetRangeError ELSE ret
    /\ UNCHANGED <<project, exists, call, wasTracked, pruned, forwardRef,
                   firstFor, pushed, parserVars, pluginVars>>

\* this.push(file)
pushFile ==
    /\ IsFile(call)
    /\ Returned(ret)
    /\ pushed = << >>
    /\ pushed' = << [dependent |-> FALSE, path |-> call.path] >>
    /\ UNCHANGED <<project, trackedFilePaths, dependencyMap, exists, call,
                   wasTracked, ret, pruned, forwardRef, firstFor, log, parserVars, pluginVars>>

\* The dependents the loop of the transform function pushes: none when
\* updateAndGetDependents returned null.
dependentFiles(r) == IF r.kind = "files" THEN r.files ELSE << >>

\* this.push(dependentFile), for the next file of dependentFiles
pushDependent ==
    /\ IsFile(call)
    /\ Returned(ret)
    /\ Len(pushed) \in 1..Len(dependentFiles(ret))
    /\ pushed' = Append(pushed, [dependent |-> TRUE,
                                 path |-> dependentFiles(ret)[Len(pushed)]])
    /\ UNCHANGED <<project, trackedFilePaths, dependencyMap, exists, call,
                   wasTracked, ret, pruned, forwardRef, firstFor, log, parserVars, pluginVars>>

\* The stream function has nothing left to do before it calls the callback.
readyForCallback ==
    \/ call = EndOfStream
    \/ /\ IsFile(call)
       /\ Returned(ret)
       /\ Len(pushed) = 1 + Len(dependentFiles(ret))

\* The variables that describe the running call, between calls.
Idle ==
    /\ call' = NoFile
    /\ wasTracked' = FALSE
    /\ ret' = RetNone
    /\ pruned' = {}
    /\ firstFor' = ""
    /\ pushed' = << >>
    /\ log' = NoLog
    /\ UNCHANGED <<project, trackedFilePaths, dependencyMap, exists, forwardRef,
                   parserVars, pluginVars>>

\* callback(): the stream function is done, the next file may come.
callback ==
    /\ readyForCallback
    /\ Idle

\* What updateAndGetDependents threw leaves its caller: nothing is pushed
\* and the callback is not called.
raise ==
    /\ call # NoFile
    /\ ret.kind \in {"RangeError", "Error", "ParserError"}
    /\ Idle

\* The flush function of the stream.
flush ==
    /\ call = NoFile
    /\ call' = EndOfStream
    /\ \E logDependencyMap \in BOOLEAN :
          log' = IF logDependencyMap
                 THEN logDependencyMapOutcome(trackedFilePaths, dependencyMap).log
                 ELSE NoLog
    /\ UNCHANGED <<project, trackedFilePaths, dependencyMap, exists, wasTracked,
                   ret, pruned, forwardRef, firstFor, pushed, parserVars, pluginVars>>

(***************************************************************************)
(* The environment: files are written to and deleted from the disk between *)
(* the calls (a call is synchronous).                                      *)
(***************************************************************************)
CreateFile(p) ==
    /\ call = NoFile
    /\ p \notin exists
    /\ exists' = exists \cup {p}
    /\ UNCHANGED <<project, trackedFilePaths, dependencyMap, call, wasTracked,
                   ret, pruned, forwardRef, firstFor, pushed, log, parserVars, pluginVars>>

DeleteFile(p) ==
    /\ call = NoFile
    /\ p \in exists
    /\ exists' = exists \ {p}
    /\ UNCHANGED <<project, trackedFilePaths, dependencyMap, call, wasTracked,
                   ret, pruned, forwardRef, firstFor, pushed, log, parserVars, pluginVars>>

Init ==
    /\ project \in Projects
    /\ trackedFilePaths = {}
    /\ dependencyMap = << >>
    /\ exists \in SUBSET project
    /\ call = NoFile
    /\ wasTracked = FALSE
    /\ ret = RetNone
    /\ pruned = {}
    /\ forwardRef = << >>
    /\ firstFor = ""
    /\ pushed = << >>
    /\ log = NoLog
    /\ defaultConfig = << >>
    /\ thisConfig = << >>
    /\ constructed = "no"
    /\ extraction = << >>
    /\ custom = << >>
    /\ dependencyTracker = "created"
    /\ streams = 1
    /\ mapAtRun = << >>

Next ==
    \/ \E file \in AllFiles \cup {NullArgument} :
          /\ IsFile(file) => /\ normalize(file.path) \in project
                             /\ file.imports \subseteq project
          /\ updateAndGetDependents(file)
    \/ logDependents
    \/ pushFile
    \/ pushDependent
    \/ callback
    \/ raise
    \/ flush
    \/ \E p \in project : CreateFile(p)
    \/ \E p \in project : DeleteFile(p)

Spec == Init /\ [][Next]_vars

(***************************************************************************)
(* The parser (dependency-parser.ts).  A string is a sequence of tokens:   *)
(* "/" is the path separator, ":" the colon, "." and ".." the special      *)
(* segments, a token that begins with a dot and is not one of these an     *)
(* extension (".scss"), every other token a run of characters that none of *)
(* the functions below looks into.  Concatenation of strings is \o.        *)
(***************************************************************************)
\* F(value).  Written this way the value is computed once, however often F
\* names it.
Once(value, F(_)) == CHOOSE result \in { F(v) : v \in {value} } : TRUE

StartsWithSlash(s) == s # << >> /\ s[1] = "/"

EndsWithSlash(s) == s # << >> /\ s[Len(s)] = "/"

\* The index of the first token t of s at or after i, Len(s) + 1 if none.
RECURSIVE IndexOf(_, _, _)
IndexOf(s, t, i) ==
    IF i > Len(s) THEN Len(s) + 1
    ELSE IF s[i] = t THEN i
    ELSE IndexOf(s, t, i + 1)

\* The segments of a path: what stands between the separators, the empty
\* segments left out.
RECURSIVE SplitSegments(_)
SplitSegments(s) ==
    IF s = << >> THEN << >>
    ELSE LET n == IndexOf(s, "/", 1)
         IN  IF n = 1 THEN SplitSegments(Tail(s))
             ELSE << SubSeq(s, 1, n - 1) >> \o SplitSegments(SubSeq(s, n + 1, Len(s)))

RECURSIVE JoinSegments(_)
JoinSegments(segments) ==
    IF segments = << >> THEN << >>
    ELSE IF Len(segments) = 1 THEN segments[1]
    ELSE segments[1] \o <<"/">> \o JoinSegments(Tail(segments))

\* normalizeString of node's path module: "." segments are dropped, a ".."
\* segment takes the segment before it away; where there is none, it stays
\* if the path is relative (allowAboveRoot) and is dropped if not.
RECURSIVE normalizeString(_, _, _)
normalizeString(done, segments, allowAboveRoot) ==
    IF segments = << >> THEN done
    ELSE LET segment == Head(segments) IN
         IF segment = <<".">>
         THEN normalizeString(done, Tail(segments), allowAboveRoot)
         ELSE IF segment = <<"..">>
         THEN IF done # << >> /\ done[Len(done)] # <<"..">>
              THEN normalizeString(SubSeq(done, 1, Len(done) - 1), Tail(segments),
                                   allowAboveRoot)
              ELSE IF allowAboveRoot
              THEN normalizeString(Append(done, segment), Tail(segments), allowAboveRoot)
              ELSE normalizeString(done, Tail(segments), allowAboveRoot)
         ELSE normalizeString(Append(done, segment), Tail(segments), allowAboveRoot)

\* path.normalize (posix)
path_normalize(p) ==
    IF p = << >> THEN <<".">>
    ELSE LET isAbsolute == StartsWithSlash(p)
             trailingSeparator == EndsWithSlash(p)
             body == JoinSegments(normalizeString(<< >>, SplitSegments(p), ~isAbsolute))
         IN  IF body = << >>
             THEN IF isAbsolute THEN <<"/">>
                  ELSE IF trailingSeparator THEN <<".", "/">> ELSE <<".">>
             ELSE (IF isAbsolute THEN <<"/">> ELSE << >>)
                  \o body
                  \o (IF trailingSeparator THEN <<"/">> ELSE << >>)

\* path.join(a, b): the arguments that are not empty, joined by a separator
\* and normalized.
path_join(a, b) ==
    IF a = << >> /\ b = << >> THEN <<".">>
    ELSE IF a = << >> THEN path_normalize(b)
    ELSE IF b = << >> THEN path_normalize(a)
    ELSE path_normalize(a \o <<"/">> \o b)

\* process.cwd(), which path.resolve falls back on.
Cwd == <<"/", "cwd">>

\* path.resolve(from, to): to, put behind from if it is not absolute and
\* behind the working directory if that is not absolute either; normalized,
\* without a trailing separator.
path_resolve(from, to) ==
    LET first == IF StartsWithSlash(to) \/ from = << >> THEN to
                 ELSE IF to = << >> THEN from
                 ELSE from \o <<"/">> \o to
        second == IF StartsWithSlash(first) THEN first
                  ELSE IF first = << >> THEN Cwd
                  ELSE Cwd \o <<"/">> \o first
    IN  <<"/">> \o JoinSegments(normalizeString(<< >>, SplitSegments(second), FALSE))

\* The index of the last token of s that is not a separator, 0 if none.
RECURSIVE LastNonSlash(_, _)
LastNonSlash(s, i) ==
    IF i = 0 THEN 0
    ELSE IF s[i] # "/" THEN i
    ELSE LastNonSlash(s, i - 1)

\* The index of the last separator of s at or before i, 0 if none.
RECURSIVE LastSlash(_, _)
LastSlash(s, i) ==
    IF i <= 0 THEN 0
    ELSE IF s[i] = "/" THEN i
    ELSE LastSlash(s, i - 1)

\* path.dirname (posix): what stands before the last separator that has
\* something other than separators behind it; the separator at the very
\* start does not count as one.
path_dirname(p) ==
    IF p = << >> THEN <<".">>
    ELSE LET hasRoot == StartsWithSlash(p)
             end == LastSlash(p, LastNonSlash(p, Len(p)) - 1)
         IN  IF LastNonSlash(p, Len(p)) <= 1 \/ end <= 1
             THEN IF hasRoot THEN <<"/">> ELSE <<".">>
             ELSE IF hasRoot /\ end = 2 THEN <<"/", "/">>
             ELSE SubSeq(p, 1, end - 1)

\* path.basename (posix): the last segment, trailing separators left aside.
path_basename(p) ==
    LET last == LastNonSlash(p, Len(p))
    IN  IF last = 0 THEN << >>
        ELSE SubSeq(p, LastSlash(p, last) + 1, last)

\* The extension tokens, in the spelling toLowerCase gives them.
toLowerCase(t) == IF t = ".SCSS" THEN ".scss" ELSE t

IsExtension(t) ==
    toLowerCase(t) \in {".scss", ".sass", ".less", ".pcss", ".css", ".txt"}

\* path.extname: from the last dot of the base name on, "" if there is none
\* or the name begins with it.
path_extname(p) ==
    LET name == path_basename(p)
    IN  IF Len(name) >= 2 /\ IsExtension(name[Len(name)])
        THEN name[Len(name)] ELSE ""

(***************************************************************************)
(* The RegExp steps of defaultConfig, on strings of tokens.  The texts are *)
(* written with the tokens below (quotes are double quotes, there is no    *)
(* url(...)); a reference holds none of them.  exec gives the first match  *)
(* at or after lastIndex: its captured groups that are not null, and the   *)
(* index behind the match.                                                 *)
(***************************************************************************)
Quote == "\""

IsSpace(t) == t \in {" ", "\n"}

Keywords == {"@import", "@use", "@forward"}

\* What stands behind the "@" of a keyword.
KeywordName(t) ==
    CASE t = "@import" -> "import"
      [] t = "@use" -> "use"
      [] t = "@forward" -> "forward"
      [] OTHER -> t

NoMatch == [found |-> FALSE, groups |-> << >>, lastIndex |-> 0]

Match(groups, end) == [found |-> TRUE, groups |-> groups, lastIndex |-> end]

\* The index of the first token at or after i that is not whitespace.
RECURSIVE SkipSpace(_, _)
SkipSpace(text, i) ==
    IF i <= Len(text) /\ IsSpace(text[i]) THEN SkipSpace(text, i + 1) ELSE i

\* The index of the last token at or before i that is not whitespace, 0 if
\* there is none.
RECURSIVE SkipSpaceBack(_, _)
SkipSpaceBack(text, i) ==
    IF i >= 1 /\ IsSpace(text[i]) THEN SkipSpaceBack(text, i - 1) ELSE i

\* "[^"]+" at i: the index of the closing quote, 0 if there is no match.
QuotedAt(text, i) ==
    IF i <= Len(text) /\ text[i] = Quote
    THEN LET close == IndexOf(text, Quote, i + 1)
         IN  IF close <= Len(text) /\ close > i + 1 THEN close ELSE 0
    ELSE 0

\* (?:\s*,\s*"[^"]+")* behind the quoted string that closes at close: the
\* index of the closing quote of the last string of the list.
RECURSIVE ListEnd(_, _)
ListEnd(text, close) ==
    LET comma == SkipSpace(text, close + 1)
    IN  IF comma <= Len(text) /\ text[comma] = ","
        THEN LET next == QuotedAt(text, SkipSpace(text, comma + 1))
             IN  IF next = 0 THEN close ELSE ListEnd(text, next)
        ELSE close

\* (?:^|;|{|}|\*\/)\s* before the keyword at k, with the m flag: going back
\* over whitespace one meets the start of the text, a line break or one of
\* these tokens.
StatementStart(text, k, starters) ==
    LET before == SkipSpaceBack(text, k - 1)
    IN  \/ before = 0
        \/ text[before] \in starters
        \/ \E j \in (before + 1)..(k - 1) : text[j] = "\n"

\* The first step of ".scss" at the keyword at k: the keyword, whitespace, a
\* list of quoted strings, and a ";" somewhere behind it; the groups are the
\* name of the keyword and the list.
scssStatementAt(text, k) ==
    IF /\ text[k] \in Keywords
       /\ StatementStart(text, k, {";", "{", "}", "*/"})
       /\ k + 1 <= Len(text) /\ IsSpace(text[k + 1])
       /\ QuotedAt(text, SkipSpace(text, k + 1)) # 0
    THEN LET open == SkipSpace(text, k + 1)
             end == ListEnd(text, QuotedAt(text, open))
         IN  IF IndexOf(text, ";", end + 1) <= Len(text)
             THEN Match(<< <<KeywordName(text[k])>>, SubSeq(text, open, end) >>,
                        end + 1)
             ELSE NoMatch
    ELSE NoMatch

\* The step of ".pcss" and of ".less" at the keyword at k: @import,
\* whitespace and one quoted string, for ".less" with the ";" right behind
\* it; the group is what stands between the quotes.
singleImportAt(text, k, semicolon) ==
    IF /\ text[k] = "@import"
       /\ StatementStart(text, k, {";", "}", "*/"})
       /\ k + 1 <= Len(text) /\ IsSpace(text[k + 1])
       /\ QuotedAt(text, SkipSpace(text, k + 1)) # 0
    THEN LET open == SkipSpace(text, k + 1)
             close == QuotedAt(text, open)
         IN  IF ~semicolon \/ (close + 1 <= Len(text) /\ text[close + 1] = ";")
             THEN Match(<< SubSeq(text, open + 1, close - 1) >>, close + 1)
             ELSE NoMatch
    ELSE NoMatch

\* The first step of ".sass" at the keyword at k: @import at the start of a
\* line, whitespace, and the rest of the line as the group.
sassLineAt(text, k) ==
    IF /\ text[k] = "@import"
       /\ StatementStart(text, k, {})
       /\ k + 1 <= Len(text) /\ IsSpace(text[k + 1])
    THEN LET rest == SkipSpace(text, k + 1)
             end == IndexOf(text, "\n", rest)
         IN  Match(<< SubSeq(text, rest, end - 1) >>, end)
    ELSE NoMatch

\* The first step of the example of the README, /^\s*@import\s+(.+?);/gm, at
\* the keyword at k: @import at the start of a line, whitespace, and as the
\* group the shortest text before a ";" of the same line.
importStatementAt(text, k) ==
    IF /\ text[k] = "@import"
       /\ StatementStart(text, k, {})
       /\ k + 1 <= Len(text) /\ IsSpace(text[k + 1])
    THEN LET rest == SkipSpace(text, k + 1)
             end == IndexOf(text, ";", rest + 1)
         IN  IF /\ rest <= Len(text) /\ end <= Len(text)
                /\ \A j \in rest..end : text[j] # "\n"
             THEN Match(<< SubSeq(text, rest, end - 1) >>, end + 1)
             ELSE NoMatch
    ELSE NoMatch

\* The index behind the run of tokens that are not whitespace that starts
\* at i.
RECURSIVE WordEnd(_, _)
WordEnd(text, i) ==
    IF i <= Len(text) /\ ~IsSpace(text[i]) THEN WordEnd(text, i + 1) ELSE i

\* The patterns at one place of the text.
matchAt(source, text, k) ==
    CASE source = "scssStatement" -> scssStatementAt(text, k)
      [] source = "pcssImport" -> singleImportAt(text, k, FALSE)
      [] source = "lessImport" -> singleImportAt(text, k, TRUE)
      [] source = "sassLine" -> sassLineAt(text, k)
      [] source = "importStatement" -> importStatementAt(text, k)
      [] source = "quoted" ->
            IF QuotedAt(text, k) # 0
            THEN Match(<< SubSeq(text, k + 1, QuotedAt(text, k) - 1) >>,
                       QuotedAt(text, k) + 1)
            ELSE NoMatch
      [] source = "quotedOrWord" ->
            IF QuotedAt(text, k) # 0
            THEN Match(<< SubSeq(text, k + 1, QuotedAt(text, k) - 1) >>,
                       QuotedAt(text, k) + 1)
            ELSE IF ~IsSpace(text[k])
            THEN Match(<< SubSeq(text, k, WordEnd(text, k) - 1) >>, WordEnd(text, k))
            ELSE NoMatch
      [] OTHER -> NoMatch

\* regExp.exec(text) with the search starting at index from (the first token
\* has index 1): the leftmost match.
RECURSIVE exec(_, _, _)
exec(source, text, from) ==
    IF from > Len(text) THEN NoMatch
    ELSE Once(matchAt(source, text, from),
              LAMBDA match : IF match.found THEN match
                             ELSE exec(source, text, from + 1))

(***************************************************************************)
(* The configuration of the parser.  A configuration of a file type is a   *)
(* record with some of the fields parserSteps, prefixes, postfixes and     *)
(* basePaths (a field that is not there is undefined); a step is a RegExp  *)
(* (one of the patterns above, with or without the g flag).                *)
(***************************************************************************)
RegExp(source, global) == [source |-> source, global |-> global]

\* A step that is a function, given by its name.
Function(name) == [function |-> name]

\* regExpOrFunc instanceof Function
isFunction(regExpOrFunc) == "function" \in DOMAIN regExpOrFunc

\* function (text) { return text.split(","); }, the second step of the
\* example of the README.
RECURSIVE splitOnComma(_)
splitOnComma(text) ==
    LET comma == IndexOf(text, ",", 1)
    IN  IF comma > Len(text) THEN << text >>
        ELSE << SubSeq(text, 1, comma - 1) >>
             \o splitOnComma(SubSeq(text, comma + 1, Len(text)))

\* regExpOrFunc(text)
callFunction(regExpOrFunc, text) ==
    IF regExpOrFunc.function = "splitOnComma" THEN splitOnComma(text)
    ELSE << >>

\* export const defaultConfig, as the module is loaded.
InitialDefaultConfig ==
    [ext \in {".pcss", ".less", ".scss", ".sass"} |->
        CASE ext = ".pcss" ->
                [postfixes |-> << <<".pcss">> >>,
                 parserSteps |-> << RegExp("pcssImport", TRUE) >>]
          [] ext = ".less" ->
                [parserSteps |-> << RegExp("lessImport", TRUE) >>,
                 prefixes |-> << >>,
                 postfixes |-> << <<".less">> >>,
                 basePaths |-> << >>]
          [] ext = ".scss" ->
                [parserSteps |-> << RegExp("scssStatement", TRUE),
                                    RegExp("quoted", TRUE) >>,
                 prefixes |-> << <<"_">> >>,
                 postfixes |-> << <<".scss">>, <<".sass">> >>,
                 basePaths |-> << >>]
          [] ext = ".sass" ->
                [parserSteps |-> << RegExp("sassLine", TRUE),
                                    RegExp("quotedOrWord", TRUE) >>,
                 prefixes |-> << <<"_">> >>,
                 postfixes |-> << <<".scss">>, <<".sass">> >>,
                 basePaths |-> << >>]]

\* The number of matches after which the loop of getMatches is taken to
\* run for ever; a text of the model holds fewer matches than that.
MaxExecs == 8

(***************************************************************************)
(* getMatches and parseFile.  A result is the list and whether the         *)
(* matching loop ran for ever.                                             *)
(***************************************************************************)
\* while (match = regExpOrFunc.exec(text)): a RegExp with the g flag goes on
\* from its lastIndex, one without it starts from the beginning each time.
RECURSIVE execLoop(_, _, _, _, _)
execLoop(regExp, text, lastIndex, results, n) ==
    Once(<< exec(regExp.source, text, IF regExp.global THEN lastIndex ELSE 1),
            results >>,
         LAMBDA now :
            LET match == now[1] IN
            IF ~match.found THEN [hangs |-> FALSE, list |-> now[2]]
            ELSE IF n >= MaxExecs THEN [hangs |-> TRUE, list |-> now[2]]
            ELSE execLoop(regExp, text, match.lastIndex, now[2] \o match.groups,
                          n + 1))

RECURSIVE getMatchesFrom(_, _, _)
getMatchesFrom(texts, regExp, results) ==
    IF texts = << >> THEN [hangs |-> FALSE, list |-> results]
    ELSE IF isFunction(regExp)
    THEN Once(results \o callFunction(regExp, Head(texts)),
              LAMBDA more : getMatchesFrom(Tail(texts), regExp, more))
    ELSE Once(execLoop(regExp, Head(texts), 1, results, 0),
              LAMBDA one : IF one.hangs THEN one
                           ELSE getMatchesFrom(Tail(texts), regExp, one.list))

getMatches(texts, regExp) == getMatchesFrom(texts, regExp, << >>)

RECURSIVE applySteps(_, _)
applySteps(dependencyPaths, parserSteps) ==
    IF parserSteps = << >> THEN [hangs |-> FALSE, list |-> dependencyPaths]
    ELSE Once(getMatches(dependencyPaths, Head(parserSteps)),
              LAMBDA step : IF step.hangs THEN step
                            ELSE applySteps(step.list, Tail(parserSteps)))

parseFile(file, config) == applySteps(<< file.contents >>, config.parserSteps)

(***************************************************************************)
(* The path variants.                                                      *)
(***************************************************************************)
\* The lists f(x) of the elements x of a list, one behind the other.
RECURSIVE FlatMap(_, _)
FlatMap(f(_), list) ==
    Once(list, LAMBDA elements :
            IF elements = << >> THEN << >>
            ELSE f(Head(elements)) \o FlatMap(f, Tail(elements)))

MapSeq(f(_), list) ==
    Once(list, LAMBDA elements : [i \in 1..Len(elements) |-> f(elements[i])])

\* Faulty variant: no prefixed path is made.
getPrefixedPathVariants_None(dependencyPaths, config) == << >>

getPrefixedPathVariants(dependencyPaths, config) ==
    LET variantsOf(dependencyPath) ==
            MapSeq(LAMBDA prefix :
                       path_join(path_dirname(dependencyPath),
                                 prefix \o path_basename(dependencyPath)),
                   config.prefixes)
    IN  FlatMap(variantsOf, dependencyPaths)

getPostfixedPathVariants(dependencyPaths, config) ==
    LET variantsOf(dependencyPath) ==
            MapSeq(LAMBDA postfix : dependencyPath \o postfix, config.postfixes)
    IN  FlatMap(variantsOf, dependencyPaths)

\* !dependencyPath.match(/^[\/]/) && !dependencyPath.match(/^.*:/)
notAbsolute(dependencyPath) ==
    /\ ~StartsWithSlash(dependencyPath)
    /\ IndexOf(dependencyPath, ":", 1) > IndexOf(dependencyPath, "\n", 1)
       \/ IndexOf(dependencyPath, ":", 1) > Len(dependencyPath)

getBasePathVariants(dependencyPaths, config) ==
    LET variantsOf(dependencyPath) ==
            IF notAbsolute(dependencyPath)
            THEN MapSeq(LAMBDA basePath : path_join(basePath, dependencyPath),
                        config.basePaths)
            ELSE << >>
    IN  FlatMap(variantsOf, dependencyPaths)

\* The tokens that end with the name of a scheme: the names themselves and
\* "profile".
EndsWithScheme(t) == t \in {"http", "https", "ftp", "file", "profile"}

\* path.match(/http:|https:|ftp:|file:/): the pattern is not anchored, it
\* matches wherever the text of a scheme stands before a colon.
matchesUrl(dependencyPath) ==
    \E i \in 1..(Len(dependencyPath) - 1) :
        /\ EndsWithScheme(dependencyPath[i])
        /\ dependencyPath[i + 1] = ":"

(***************************************************************************)
(* getDependencyFilePaths of the parser, for the configuration object of   *)
(* its file type.                                                          *)
(***************************************************************************)
withPrefixes(dependencyPaths, config) ==
    IF "prefixes" \in DOMAIN config
    THEN dependencyPaths \o getPrefixedPathVariants(dependencyPaths, config)
    ELSE dependencyPaths

withPostfixes(dependencyPaths, config) ==
    IF "postfixes" \in DOMAIN config
    THEN dependencyPaths \o getPostfixedPathVariants(dependencyPaths, config)
    ELSE dependencyPaths

\* Faulty variant: the base path variants are left as path.join made them.
withBasePaths_Unresolved(dependencyPaths, config, file) ==
    IF "basePaths" \in DOMAIN config
    THEN dependencyPaths \o getBasePathVariants(dependencyPaths, config)
    ELSE dependencyPaths

withBasePaths(dependencyPaths, config, file) ==
    IF "basePaths" \in DOMAIN config
    THEN dependencyPaths
         \o MapSeq(LAMBDA dependencyPath :
                       path_resolve(path_dirname(file.base), dependencyPath),
                   getBasePathVariants(dependencyPaths, config))
    ELSE dependencyPaths

\* "Add path variants for all prefix and postfix variants.": the list before
\* it is reduced to unique paths, for the references left by the URL filter.
addPathVariants(references, config, file) ==
    Once(withPrefixes(references, config), LAMBDA prefixed :
    Once(withPostfixes(prefixed, config), LAMBDA postfixed :
         withBasePaths(postfixed, config, file)))

\* "Ignore dependency paths representing URL's."
withoutUrls(dependencyPaths) ==
    SelectSeq(dependencyPaths, LAMBDA dependencyPath : ~matchesUrl(dependencyPath))

\* The keys of uniqueDependencyPaths: the normalized paths, each where it
\* came first.
uniqueKeys(dependencyPaths) ==
    Once(MapSeq(path_normalize, dependencyPaths), LAMBDA normalized :
    Once({ i \in 1..Len(normalized) :
             \A j \in 1..(i - 1) : normalized[j] # normalized[i] }, LAMBDA first :
         [k \in 1..Cardinality(first) |->
             normalized[CHOOSE i \in first :
                           Cardinality({ j \in first : j <= i }) = k]]))

\* Faulty variant: the paths are resolved against the directory of
\* file.base.
resolveAll_AgainstBase(keys, file) ==
    MapSeq(LAMBDA dependencyPath :
               path_resolve(path_dirname(file.base), dependencyPath),
           keys)

\* "Resolve paths to absolute paths."
resolveAll(keys, file) ==
    MapSeq(LAMBDA dependencyPath :
               path_resolve(path_dirname(file.path), dependencyPath),
           keys)

\* What getDependencyFilePaths gives back: null, the list of paths, or
\* nothing because it does not return; with it, for the record, what
\* parseFile gave, the references left by the URL filter and the list of
\* path variants before it was reduced to unique paths.
NullResult ==
    [kind |-> "null", paths |-> << >>, parsed |-> << >>, references |-> << >>,
     candidates |-> << >>]

\* The call for a file whose type has the configuration config.
getDependencyFilePathsWith(config, file) ==
    Once(parseFile(file, config), LAMBDA parsed :
        IF parsed.hangs
        THEN [kind |-> "hangs", paths |-> << >>, parsed |-> << >>,
              references |-> << >>, candidates |-> << >>]
        ELSE Once(withoutUrls(parsed.list), LAMBDA references :
             Once(addPathVariants(references, config, file), LAMBDA candidates :
                  [kind |-> "paths",
                   paths |-> resolveAll(uniqueKeys(candidates), file),
                   parsed |-> parsed.list,
                   references |-> references,
                   candidates |-> candidates])))

(***************************************************************************)
(* this.config of a parser.  Each key refers to an object: the object of   *)
(* defaultConfig (applyConfig stores the object itself, not a copy), an    *)
(* object of the custom configuration, or null.                            *)
(***************************************************************************)
DefaultObject == [kind |-> "default", config |-> << >>]

CustomObject(config) == [kind |-> "custom", config |-> config]

NullObject == [kind |-> "null", config |-> << >>]

\* this.config[key] is truthy
hasConfig(parserConfig, key) ==
    key \in DOMAIN parserConfig /\ parserConfig[key].kind # "null"

\* this.config[key], where it is truthy
configOf(defaults, parserConfig, key) ==
    IF parserConfig[key].kind = "default" THEN defaults[key]
    ELSE parserConfig[key].config

\* Faulty variant: the extension is looked up as it is spelled.
configKey_AsSpelled(file) == path_extname(file.path)

\* path.extname(file.path).toLowerCase()
configKey(file) == toLowerCase(path_extname(file.path))

DependencyParser_getDependencyFilePaths(defaults, parserConfig, file) ==
    Once(configKey(file), LAMBDA key :
        IF ~hasConfig(parserConfig, key) THEN NullResult
        ELSE Once(configOf(defaults, parserConfig, key),
                  LAMBDA config : getDependencyFilePathsWith(config, file)))

(***************************************************************************)
(* applyConfig and the constructor.  A configuration to apply is the list  *)
(* of its keys in order, each with its value: falsy, or an object.  st is  *)
(* what the loop works on: defaultConfig, this.config, and whether the     *)
(* Error was thrown.                                                       *)
(***************************************************************************)
Entry(key, object) == [key |-> key, falsy |-> FALSE, object |-> object]

FalsyEntry(key) == [key |-> key, falsy |-> TRUE, object |-> NullObject]

\* Faulty variant: a falsy value leaves the configuration of the key alone.
SetConfig_ExceptNull(parserConfig, key, object) ==
    IF object.kind = "null" /\ key \in DOMAIN parserConfig
    THEN parserConfig
    ELSE [k \in DOMAIN parserConfig \cup {key} |->
             IF k = key THEN object ELSE parserConfig[k]]

\* this.config[key] = object
SetConfig(parserConfig, key, object) ==
    [k \in DOMAIN parserConfig \cup {key} |->
        IF k = key THEN object ELSE parserConfig[k]]

\* this.config[key][field] = currentConfig[field], for every field of
\* currentConfig.
MergeFields(config, currentConfig) ==
    [field \in DOMAIN config \cup DOMAIN currentConfig |->
        IF field \in DOMAIN currentConfig THEN currentConfig[field]
        ELSE config[field]]

\* Faulty variant: only a missing list of parserSteps counts.
lacksParserSteps_OnlyMissing(currentConfig) ==
    "parserSteps" \notin DOMAIN currentConfig

\* currentConfig.parserSteps is missing or empty
lacksParserSteps(currentConfig) ==
    \/ "parserSteps" \notin DOMAIN currentConfig
    \/ currentConfig.parserSteps = << >>

\* The object an entry stands for.
ObjectOf(defaults, entry) ==
    IF entry.object.kind = "default" THEN defaults[entry.key]
    ELSE entry.object.config

\* The body of the loop of applyConfig for one key.
applyEntry(st, entry) ==
    IF entry.falsy
    THEN [st EXCEPT !.config = SetConfig(@, entry.key, NullObject)]
    ELSE IF ~hasConfig(st.config, entry.key)
    THEN IF lacksParserSteps(ObjectOf(st.defaults, entry))
         THEN [st EXCEPT !.error = TRUE]
         ELSE [st EXCEPT !.config = SetConfig(@, entry.key, entry.object)]
    ELSE IF st.config[entry.key].kind = "default"
    THEN [st EXCEPT !.defaults[entry.key] =
                        MergeFields(@, ObjectOf(st.defaults, entry))]
    ELSE [st EXCEPT !.config[entry.key] =
                        CustomObject(MergeFields(@.config, ObjectOf(st.defaults, entry)))]

RECURSIVE applyConfig(_, _)
applyConfig(st, entries) ==
    IF entries = << >> \/ st.error THEN st
    ELSE applyConfig(applyEntry(st, Head(entries)), Tail(entries))

\* Object.keys(defaultConfig), each with the object of defaultConfig.
DefaultEntries ==
    << Entry(".pcss", DefaultObject), Entry(".less", DefaultObject),
       Entry(".scss", DefaultObject), Entry(".sass", DefaultObject) >>

\* new DependencyParser(config)
newDependencyParser(defaults, config) ==
    applyConfig(applyConfig([defaults |-> defaults, config |-> << >>,
                             error |-> FALSE],
                            DefaultEntries),
                config)

(***************************************************************************)
(* The parser as a state machine: parsers are constructed with custom      *)
(* configurations, and the parser constructed last is asked for the        *)
(* dependencies of files.                                                  *)
(***************************************************************************)
\* The number of references of one import statement.
MaxRefs == 2

\* file.base of the files
ParserBase == <<"/", "project", "/", "src">>

MainScss == ParserBase \o <<"/", "main", ".scss">>

ParserPaths ==
    { MainScss,
      ParserBase \o <<"/", "MAIN", ".SCSS">>,
      ParserBase \o <<"/", "main", ".sass">>,
      ParserBase \o <<"/", "main", ".less">>,
      ParserBase \o <<"/", "main", ".pcss">>,
      ParserBase \o <<"/", "notes", ".txt">>,
      ParserBase \o <<"/", "main", ".css">> }

\* What a file may import.
Colors == <<"colors">>

References ==
    { Colors,
      <<"dir", "/", "colors">>,
      <<"..", "/", "colors">>,
      <<"colors", ".scss">>,
      <<"/", "abs", "/", "colors">>,
      <<"my", ":", "colors">>,
      <<"http", ":", "/", "/", "cdn", "/", "x">>,
      <<"profile", ":">>,
      <<"dir", "/", "http", ":", "/", "x">> }

\* What may stand behind the first reference of an import statement.
MoreReferences ==
    { Colors, <<"dir", "/", "colors">>, <<"/", "abs", "/", "colors">> }

\* "r1", "r2", ...
RECURSIVE QuotedList(_)
QuotedList(references) ==
    IF references = << >> THEN << >>
    ELSE <<Quote>> \o Head(references) \o <<Quote>>
         \o (IF Len(references) = 1 THEN << >>
             ELSE <<",", " ">> \o QuotedList(Tail(references)))

\* @import "r1", "r2";
ImportStatement(references) ==
    <<"@import", " ">> \o QuotedList(references) \o <<";">>

\* Texts that import nothing: the empty text, a rule, a statement that
\* lacks its quotes, and a line of a comment that names a file.
TextsWithoutImport ==
    { << >>,
      <<"body", " ", "{", "}">>,
      <<"@import", ";">>,
      <<"//", " ", Quote, "colors", Quote>> }

TextsWithImport ==
    { ImportStatement(<< first >> \o more) :
        first \in References,
        more \in UNION { [1..n -> MoreReferences] : n \in 0..(MaxRefs - 1) } }

ParserFiles ==
    { [path |-> path, base |-> ParserBase, contents |-> contents] :
        path \in ParserPaths, contents \in TextsWithoutImport \cup TextsWithImport }

\* The custom configurations a parser is constructed with: none; base paths
\* for ".scss"; a new file type; ".less" switched off; a new file type that
\* lacks its parserSteps; prefixes for ".scss"; a new file type with an
\* empty list of parserSteps; the example of the README (ReadmeExample);
\* an empty list of parserSteps for ".less".
\* The configuration of ".scss" that the README shows as its example.
ReadmeExample ==
    [parserSteps |-> << RegExp("importStatement", TRUE),
                        Function("splitOnComma"),
                        RegExp("quoted", FALSE) >>,
     prefixes |-> << <<"_">> >>,
     postfixes |-> << <<".scss">>, <<".sass">> >>,
     basePaths |-> << >>]

CustomConfigs ==
    { << >>,
      << Entry(".scss", CustomObject(ReadmeExample)) >>,
      << Entry(".less", CustomObject([parserSteps |-> << >>])) >>,
      << Entry(".scss", CustomObject([basePaths |-> << <<"lib">>,
                                                      <<"/", "shared">> >>])) >>,
      << Entry(".txt", CustomObject([parserSteps |-> << RegExp("quoted", TRUE) >>,
                                     prefixes |-> << <<"_">>, <<"p-">> >>])) >>,
      << FalsyEntry(".less") >>,
      << Entry(".txt", CustomObject([postfixes |-> << <<".txt">> >>])) >>,
      << Entry(".scss", CustomObject([prefixes |-> << <<"p-">> >>])) >>,
      << Entry(".txt", CustomObject([parserSteps |-> << >>,
                                     postfixes |-> << <<".txt">> >>])) >> }

\* No call of getDependencyFilePaths is under way.
NoExtraction == [file |-> << >>, result |-> [kind |-> "none"]]

\* new DependencyParser(config): the constructor changes defaultConfig where
\* it merges into its objects, also when it ends with the Error.
NewDependencyParser(config) ==
    /\ extraction = NoExtraction
    /\ \E st \in { newDependencyParser(defaultConfig, config) } :
        /\ defaultConfig' = st.defaults
        /\ thisConfig' = st.config
        /\ constructed' = IF st.error THEN "Error" ELSE "ok"
    /\ custom' = config
    /\ UNCHANGED <<trackerVars, extraction, pluginVars>>

\* dependencyParser.getDependencyFilePaths(file), up to its return
\* statement: the call is synchronous, nothing else runs meanwhile.
GetDependencyFilePaths(file) ==
    /\ constructed = "ok"
    /\ extraction = NoExtraction
    /\ extraction' =
          [file |-> file,
           result |-> DependencyParser_getDependencyFilePaths(defaultConfig,
                                                              thisConfig, file)]
    /\ UNCHANGED <<trackerVars, defaultConfig, thisConfig, constructed, custom,
                   pluginVars>>

\* The call returns what it has computed; a call whose matching loop does
\* not end never does.
ReturnDependencyFilePaths ==
    /\ extraction # NoExtraction
    /\ extraction.result.kind # "hangs"
    /\ extraction' = NoExtraction
    /\ UNCHANGED <<trackerVars, defaultConfig, thisConfig, constructed, custom,
                   pluginVars>>

InitParser ==
    /\ project = Paths
    /\ trackedFilePaths = {}
    /\ dependencyMap = << >>
    /\ exists = {}
    /\ call = NoFile
    /\ wasTracked = FALSE
    /\ ret = RetNone
    /\ pruned = {}
    /\ forwardRef = << >>
    /\ firstFor = ""
    /\ pushed = << >>
    /\ log = NoLog
    /\ defaultConfig = InitialDefaultConfig
    /\ thisConfig = << >>
    /\ constructed = "no"
    /\ extraction = NoExtraction
    /\ custom = << >>
    /\ dependencyTracker = "null"
    /\ streams = 0
    /\ mapAtRun = << >>

NextParser ==
    \/ \E config \in CustomConfigs : NewDependencyParser(config)
    \/ \E file \in ParserFiles : GetDependencyFilePaths(file)
    \/ ReturnDependencyFilePaths

SpecParser == InitParser /\ [][NextParser]_vars

(***************************************************************************)
(* The plugin function (Plugin.run, and plugin() of the newer source): it  *)
(* creates the tracker with its parser where the static field holds none,  *)
(* and returns a stream whose transform function calls the tracker.  The   *)
(* files of a build pass through the stream returned last.                 *)
(***************************************************************************)
\* The streams the plugin function returns in the model.
MaxStreams == 2

\* The files of the build sessions of the plugin.
PluginProject == {A, N}

\* The parserConfig arguments: none; ".scss" switched off and a
\* configuration for ".txt"; a configuration for ".txt"; a configuration
\* for ".txt" that lacks its parserSteps.
PluginConfigs ==
    { << >>,
      << FalsyEntry(".scss"),
         Entry(".txt", CustomObject([parserSteps |-> << RegExp("quoted", TRUE) >>])) >>,
      << Entry(".txt", CustomObject([parserSteps |-> << RegExp("quoted", TRUE) >>])) >>,
      << Entry(".txt", CustomObject([postfixes |-> << <<".txt">> >>])) >> }

\* Faulty variant: every invocation creates a tracker.
needsTracker_Always(tracker) == TRUE

\* if (Plugin.dependencyTracker == null)
needsTracker(tracker) == tracker = "null"

\* Plugin.run(parserConfig, pluginConfig) up to the stream it returns.  What
\* the constructor of the parser throws leaves the function before the
\* static field is assigned and before a stream exists.
run(parserConfig) ==
    /\ call = NoFile
    /\ streams < MaxStreams
    /\ IF needsTracker(dependencyTracker)
       THEN \E st \in { newDependencyParser(defaultConfig, parserConfig) } :
              /\ defaultConfig' = st.defaults
              /\ thisConfig' = st.config
              /\ custom' = parserConfig
              /\ IF st.error
                 THEN /\ constructed' = "Error"
                      /\ UNCHANGED <<trackedFilePaths, dependencyMap, forwardRef,
                                     pluginVars>>
                 ELSE /\ constructed' = "ok"
                      /\ dependencyTracker' = "created"
                      /\ trackedFilePaths' = {}
                      /\ dependencyMap' = << >>
                      /\ forwardRef' = << >>
                      /\ streams' = streams + 1
                      /\ mapAtRun' = << >>
       ELSE /\ streams' = streams + 1
            /\ mapAtRun' = dependencyMap
            /\ UNCHANGED <<trackedFilePaths, dependencyMap, forwardRef,
                           defaultConfig, thisConfig, constructed, custom,
                           dependencyTracker>>
    /\ UNCHANGED <<project, exists, call, wasTracked, ret, pruned, firstFor,
                   pushed, log, extraction>>

\* The transform function is called with a file of the build.
transform ==
    /\ dependencyTracker = "created"
    /\ \E file \in AllFiles \cup {NullArgument} :
          /\ IsFile(file) => /\ normalize(file.path) \in project
                             /\ file.imports \subseteq project
          /\ updateAndGetDependents(file)

InitPlugin ==
    /\ project = PluginProject
    /\ trackedFilePaths = {}
    /\ dependencyMap = << >>
    /\ exists \in SUBSET project
    /\ call = NoFile
    /\ wasTracked = FALSE
    /\ ret = RetNone
    /\ pruned = {}
    /\ forwardRef = << >>
    /\ firstFor = ""
    /\ pushed = << >>
    /\ log = NoLog
    /\ defaultConfig = InitialDefaultConfig
    /\ thisConfig = << >>
    /\ constructed = "no"
    /\ extraction = NoExtraction
    /\ custom = << >>
    /\ dependencyTracker = "null"
    /\ streams = 0
    /\ mapAtRun = << >>

NextPlugin ==
    \/ \E parserConfig \in PluginConfigs : run(parserConfig)
    \/ transform
    \/ logDependents
    \/ pushFile
    \/ pushDependent
    \/ callback
    \/ raise
    \/ dependencyTracker = "created" /\ flush
    \/ \E p \in project : CreateFile(p)
    \/ \E p \in project : DeleteFile(p)

SpecPlugin == InitPlugin /\ [][NextPlugin]_vars

(***************************************************************************)
(* Notions the properties are stated in.                                   *)
(***************************************************************************)
\* The dependents the map records for one path.
Dependents(map, k) == IF k \in DOMAIN map THEN Range(map[k]) ELSE {}

\* The paths reachable from f by one or more steps of the dependents
\* relation of map, every path stepped on being in allowed.
RECURSIVE Closure(_, _, _)
Closure(map, allowed, found) ==
    LET more == found \cup
                UNION { Dependents(map, x) \cap allowed : x \in found }
    IN  IF more = found THEN found ELSE Closure(map, allowed, more)

Reach(map, allowed, f) ==
    Closure(map, allowed, Dependents(map, f) \cap allowed)

\* An import cycle can be entered from f.
CycleFrom(map, allowed, f) ==
    \E x \in Reach(map, allowed, f) : x \in Reach(map, allowed, x)

\* The state is one in which the caller holds what a call of
\* updateAndGetDependents for a file gave back.
Called == IsFile(call)

\* The step is a call of updateAndGetDependents for a file.
UpdateStep == call = NoFile /\ IsFile(call')

\* The path that call was about.
CalledPath == normalize(call.path)

\* That call got past the parser: the file had no content, or its extension
\* has a configuration.
CallTraversed == wasTracked /\ (call.isNull \/ IsParsed(call))

NoDuplicates(s) == \A i, j \in 1..Len(s) : s[i] = s[j] => i = j

(***************************************************************************)
(* C1  Forward reference.                                                  *)
(***************************************************************************)
\* C1, as stated: when update(A) parsed an import of a path B that was
\* missing and untracked, the first later update(B) returns a list that
\* contains A, provided A exists then.  (A call that throws, with the
\* RangeError of C4 or in the parser, is left out here, so that what is
\* refuted is the statement itself.)
C1_ForwardReferenceAsStated ==
    (Called /\ firstFor # "" /\ firstFor \in exists /\ Returned(ret))
        => (ret.kind = "files" /\ firstFor \in Range(ret.files))

\* C1, amended: the first later update(B) is for a file without content or of
\* a configured extension, the edge from B to A is still in the map and A
\* exists; then the call does not return null: it returns a list containing
\* A, unless an import cycle of existing files can be entered from B, in which
\* case it ends with the RangeError of the exhausted call stack.
C1_ForwardReference ==
    ( /\ Called
      /\ firstFor # ""
      /\ firstFor \in exists
      /\ call.isNull \/ IsParsed(call)
      /\ firstFor \in Dependents(dependencyMap, CalledPath) )
    => IF CycleFrom(dependencyMap, exists, CalledPath)
       THEN ret = RetRangeError
       ELSE ret.kind = "files" /\ firstFor \in Range(ret.files)

\* A first update of a forward-referenced path has returned its importer.
C1_Witness ==
    /\ Called
    /\ firstFor # ""
    /\ ret.kind = "files"
    /\ firstFor \in Range(ret.files)

(***************************************************************************)
(* C2  Initial sighting.                                                   *)
(***************************************************************************)
\* C2: a call of update for a path that is not in the tracked set when the
\* call is made returns null, whatever the dependency map contains (unless
\* the parser throws, and the call with it).
C2_InitialSighting ==
    [][ ( /\ UpdateStep
          /\ normalize(call'.path) \notin trackedFilePaths
          /\ ret' # RetParserError )
            => ret' = RetNull ]_vars

\* A first sighting returned null although the map lists existing
\* dependents of the path.
C2_Witness ==
    /\ Called
    /\ ~wasTracked
    /\ ret = RetNull
    /\ (Dependents(dependencyMap, CalledPath) \cap exists) \ {CalledPath} # {}

(***************************************************************************)
(* C3  Transitive closure.                                                 *)
(***************************************************************************)
\* Every file the call is about exists: the path itself and every path the
\* dependents relation reaches from it.
AllInvolvedExist ==
    {CalledPath} \cup Reach(dependencyMap, Paths, CalledPath) \subseteq exists

\* C3: an update of a tracked path, every file involved existing, returns
\* exactly the paths reachable from it by one or more steps of the dependents
\* relation, each once.  (Stated for the calls that get to the traversal: the
\* file has no content or its extension is configured.)
C3_TransitiveClosure ==
    (Called /\ CallTraversed /\ AllInvolvedExist)
        => /\ ret.kind = "files"
           /\ Range(ret.files) = Reach(dependencyMap, Paths, CalledPath)
           /\ NoDuplicates(ret.files)

(***************************************************************************)
(* C4  Cycle safety.                                                       *)
(***************************************************************************)
\* C4: for every reachable dependency map, with an import cycle or without,
\* the traversal of update ends and the call returns.
C4_TraversalReturns == Called => ret # RetRangeError

(***************************************************************************)
(* C5  Cycle result.                                                       *)
(***************************************************************************)
\* The map of A importing B, B importing C and C importing A.
CycleMap == (B :> <<A>>) @@ (C :> <<B>>) @@ (A :> <<C>>)

\* C5: with that cycle recorded, each of the three files tracked by an update
\* of its own and existing, a further update(C) returns exactly A and B, each
\* once.
C5_CycleResult ==
    ( /\ Called
      /\ CalledPath = C
      /\ wasTracked
      /\ firstFor = ""
      /\ forwardRef = << >>
      /\ call.isNull \/ call.imports = {A}
      /\ dependencyMap = CycleMap
      /\ {A, B, C} \subseteq trackedFilePaths
      /\ {A, B, C} \subseteq exists )
    => /\ ret.kind = "files"
       /\ Range(ret.files) = {A, B}
       /\ Len(ret.files) = 2

(***************************************************************************)
(* C6  Stale edge removal.                                                 *)
(***************************************************************************)
\* C6: an update of A with content leaves no edge to A from a path that
\* content does not import; an edge to A appears only in an update of A whose
\* content imports the path; and a list returned by update(B) holds only
\* paths that the dependents relation reaches from B through existing files.
\* So from the update of A that dropped its import of B until A is parsed
\* with that import again, update(B) returns A only if A still reaches B
\* through other files.
C6_StaleEdgeRemoval ==
    [][ /\ \A k, a \in Paths :
              (a \in Dependents(dependencyMap', k) /\ a \notin Dependents(dependencyMap, k))
                  => /\ UpdateStep
                     /\ a = normalize(call'.path)
                     /\ ~call'.isNull
                     /\ k \in call'.imports
        /\ (UpdateStep /\ ~call'.isNull)
              => \A k \in Paths :
                    normalize(call'.path) \in Dependents(dependencyMap', k)
                        => k \in call'.imports
        /\ (UpdateStep /\ ret'.kind = "files")
              => Range(ret'.files) \subseteq
                    Reach(dependencyMap', exists', normalize(call'.path))
      ]_vars

\* A imports B and both are known; parsing A with content that imports
\* nothing removes the edge, and the update of B after it does not return A.
C6_Witness ==
    /\ A \in Dependents(dependencyMap, B)
    /\ {A, B} \subseteq exists
    /\ {A, B} \subseteq trackedFilePaths
    /\ LET first == updateOutcome(trackedFilePaths, dependencyMap, exists,
                        [path |-> A, isNull |-> FALSE, imports |-> {}, throws |-> FALSE])
           second == updateOutcome(first.tracked, first.map, exists,
                        [path |-> B, isNull |-> TRUE, imports |-> {}, throws |-> FALSE])
       IN  /\ A \notin Dependents(first.map, B)
           /\ second.ret.kind = "files"
           /\ A \notin Range(second.ret.files)

(***************************************************************************)
(* C7  Only existing files are returned.                                   *)
(***************************************************************************)
\* C7: every path of a returned list exists on the file system at the time
\* of the call and is reached from the updated path through existing
\* dependents only.
C7_ReturnedFilesExist ==
    (Called /\ ret.kind = "files")
        => /\ Range(ret.files) \subseteq exists
           /\ Range(ret.files) \subseteq Reach(dependencyMap, exists, CalledPath)

\* The traversal met a missing dependent, and an existing file that depends
\* on the missing one was not returned.
C7_Witness ==
    /\ Called
    /\ ret.kind = "files"
    /\ ret.files # << >>
    /\ \E d \in pruned :
          \E x \in Dependents(dependencyMap, d) \cap exists :
              x \notin Range(ret.files)

(***************************************************************************)
(* C8  Pruning of missing dependents.                                      *)
(***************************************************************************)
\* C8: after a call whose traversal met a missing dependent D, D is in no
\* dependent set of the map, and no entry of the map is empty.
C8_MissingDependentsPruned ==
    (Called /\ pruned # {})
        => /\ \A d \in pruned : \A k \in Paths : d \notin Dependents(dependencyMap, k)
           /\ \A k \in DOMAIN dependencyMap : dependencyMap[k] # << >>

\* The missing dependent B is in the dependent sets of two paths; the
\* traversal of an update meets it under one of them, and after the call it
\* is in neither.
C8_Witness ==
    /\ B \notin exists
    /\ \E k1, k2 \in Paths :
          /\ k1 # k2
          /\ B \in Dependents(dependencyMap, k1)
          /\ B \in Dependents(dependencyMap, k2)
          /\ k1 \in trackedFilePaths
          /\ LET out == updateOutcome(trackedFilePaths, dependencyMap, exists,
                            [path |-> k1, isNull |-> TRUE, imports |-> {}, throws |-> FALSE])
             IN  /\ B \in out.met
                 /\ \A k \in Paths : B \notin Dependents(out.map, k)

(***************************************************************************)
(* C9  Deleted dependent pruning.                                          *)
(***************************************************************************)
\* The case of C9 for a step: a imports b, both were updated before, b is
\* gone from the disk, and the step is an update of a with that import.
C9_Case(a, b) ==
    /\ a # b
    /\ a \in Dependents(dependencyMap, b)
    /\ {a, b} \subseteq trackedFilePaths \ DOMAIN forwardRef
    /\ b \notin exists
    /\ UpdateStep
    /\ normalize(call'.path) = a
    /\ ~call'.isNull
    /\ b \in call'.imports

\* C9, as stated: in that case the result does not contain b and after the
\* call b is in no dependent set of the map.  (A call that ends with the
\* RangeError of C4, and a b that imports itself, are left out.)
C9_DeletedPrunedAsStated ==
    [][ \A a, b \in Paths :
          (C9_Case(a, b) /\ b \notin Dependents(dependencyMap, b) /\ Returned(ret'))
              => /\ b \notin Range(ret'.files)
                 /\ \A k \in Paths : b \notin Dependents(dependencyMap', k)
      ]_vars

\* C9, amended: in that case the result does not contain b; b is removed
\* from every dependent set if the traversal from a met b (b imports a,
\* directly or through existing files), and otherwise b stays in every
\* dependent set it was in.
C9_DeletedPruned ==
    [][ \A a, b \in Paths :
          C9_Case(a, b)
              => /\ b \notin Range(ret'.files)
                 /\ IF b \in pruned'
                    THEN \A k \in Paths : b \notin Dependents(dependencyMap', k)
                    ELSE \A k \in Paths :
                            b \in Dependents(dependencyMap', k)
                                <=> b \in Dependents(dependencyMap, k)
      ]_vars

\* An update of a file that imports the deleted b met b in its traversal,
\* returned a list without it and left it in no dependent set.
C9_Witness ==
    /\ Called
    /\ ~call.isNull
    /\ ret.kind = "files"
    /\ \E b \in call.imports \cap pruned :
          /\ b # CalledPath
          /\ b \in trackedFilePaths \ DOMAIN forwardRef
          /\ b \notin Range(ret.files)
          /\ \A k \in Paths : b \notin Dependents(dependencyMap, k)

(***************************************************************************)
(* C10  Unsupported extension.                                             *)
(***************************************************************************)
\* C10, as stated: every update for a file whose extension has no parser
\* configuration, with content or without, returns null and leaves the map
\* unchanged.  (A call that ends with the RangeError of C4 is left out.)
C10_UnsupportedAsStated ==
    [][ ( /\ UpdateStep
          /\ extname(call'.path) \notin ConfiguredExtensions
          /\ ret' # RetRangeError )
            => (ret' = RetNull /\ dependencyMap' = dependencyMap)
      ]_vars

\* C10, amended: every update with content for such a file returns null and
\* leaves the map unchanged; an update without content does not ask the
\* parser, and returns null exactly when the path was not tracked.
C10_Unsupported ==
    [][ (UpdateStep /\ extname(call'.path) \notin ConfiguredExtensions)
            => IF call'.isNull
               THEN ret' = RetNull <=> normalize(call'.path) \notin trackedFilePaths
               ELSE ret' = RetNull /\ dependencyMap' = dependencyMap
      ]_vars

\* An update with content for a file of an unconfigured extension, tracked
\* as a missing dependency of an existing file, returned null.
C10_Witness ==
    /\ Called
    /\ extname(call.path) \notin ConfiguredExtensions
    /\ ~call.isNull
    /\ wasTracked
    /\ firstFor # ""
    /\ ret = RetNull
    /\ Dependents(dependencyMap, CalledPath) \cap exists # {}

(***************************************************************************)
(* C11  No empty entry in the dependency map.                              *)
(***************************************************************************)
\* C11: in every state, after every call whatever it returned or threw and
\* after every change of the file system, every key of the dependency map
\* has at least one dependent: a key that lost its last dependent is gone.
C11_NoEmptyEntries ==
    \A k \in DOMAIN dependencyMap : dependencyMap[k] # << >>

\* A is the only dependent of some key, and parsing A with content that
\* imports nothing removes that key from the map.
C11_Witness ==
    \E k \in DOMAIN dependencyMap :
        /\ dependencyMap[k] = <<A>>
        /\ LET out == updateOutcome(trackedFilePaths, dependencyMap, exists,
                          [path |-> A, isNull |-> FALSE, imports |-> {},
                           throws |-> FALSE])
           IN  k \notin DOMAIN out.map

(***************************************************************************)
(* C12  The tracked set only grows.                                        *)
(***************************************************************************)
\* C12: no step (an update, with its pruning of missing dependents, a
\* diagnostic, a change of the file system) takes a path out of the tracked
\* set.
C12_TrackedOnlyGrows ==
    [][ trackedFilePaths \subseteq trackedFilePaths' ]_vars

\* A tracked file is gone from the disk and a traversal has pruned its edges;
\* it is still tracked.
C12_Witness ==
    /\ Called
    /\ \E p \in pruned :
          /\ p \in trackedFilePaths
          /\ p \notin exists
          /\ \A k \in Paths : p \notin Dependents(dependencyMap, k)

(***************************************************************************)
(* C13  Null argument.                                                     *)
(***************************************************************************)
\* C13: a call of update with null for the file throws an Error and leaves
\* the tracked set and the dependency map as they were.
C13_NullArgument ==
    [][ (call = NoFile /\ call' = NullArgument)
            => /\ ret' = RetError
               /\ trackedFilePaths' = trackedFilePaths
               /\ dependencyMap' = dependencyMap
      ]_vars

\* update(null) has thrown while the tracker held tracked paths and edges.
C13_Witness ==
    /\ call = NullArgument
    /\ ret = RetError
    /\ trackedFilePaths # {}
    /\ dependencyMap # << >>

(***************************************************************************)
(* C14  No half-updated graph.                                             *)
(***************************************************************************)
\* C14: when the parser throws during update(f), the call throws and the
\* tracked set and the dependency map are what they were before the call (so
\* the edges in which f was the dependent are still there).
C14_NoHalfUpdate ==
    [][ (UpdateStep /\ call'.throws)
            => /\ ret' = RetParserError
               /\ trackedFilePaths' = trackedFilePaths
               /\ dependencyMap' = dependencyMap
      ]_vars

(***************************************************************************)
(* C15  Idempotence.                                                       *)
(***************************************************************************)
\* What a second call with the same file leaves, made right after the call
\* whose result the caller holds (the file system has not changed since).
SameCallAgain ==
    updateOutcome(trackedFilePaths, dependencyMap, exists, call)

\* C15, as stated: a second call of update with the same path and content,
\* the file system unchanged, leaves the tracked set and the dependency map
\* as the first call left them.  (Stated for a file that does not import
\* itself.)
C15_IdempotentAsStated ==
    (Called /\ CalledPath \notin Dependents(dependencyMap, CalledPath))
        => /\ SameCallAgain.tracked = trackedFilePaths
           /\ SameCallAgain.map = dependencyMap

\* C15, amended: the same, for a first call that found the path tracked.  (A
\* first sighting returns before the traversal, so the second call is the
\* first to prune the missing dependents.)
C15_Idempotent ==
    (Called /\ wasTracked)
        => /\ SameCallAgain.tracked = trackedFilePaths
           /\ SameCallAgain.map = dependencyMap

\* The call parsed imports for a tracked path and pruned a missing dependent
\* that another entry listed too: it changed the map in both ways.
C15_Witness ==
    /\ Called
    /\ wasTracked
    /\ IsParsed(call)
    /\ call.imports # {}
    /\ pruned # {}
    /\ dependencyMap # << >>

(***************************************************************************)
(* C16  Null content.                                                      *)
(***************************************************************************)
\* C16, as stated: an update for a file without content marks the path as
\* tracked, does not call the parser, and leaves the path a dependent of
\* exactly the paths it was a dependent of.  (Stated for a file that does
\* not import itself.)
C16_NullContentAsStated ==
    [][ ( /\ UpdateStep
          /\ call'.isNull
          /\ normalize(call'.path) \notin Dependents(dependencyMap, normalize(call'.path)) )
            => /\ normalize(call'.path) \in trackedFilePaths'
               /\ ret' # RetParserError
               /\ \A k \in Paths :
                     normalize(call'.path) \in Dependents(dependencyMap', k)
                         <=> normalize(call'.path) \in Dependents(dependencyMap, k)
      ]_vars

\* C16, amended: the same, unless the traversal of this very call meets the
\* file itself as a missing dependent (it is gone from the disk and imports
\* itself, directly or through existing files): then the call leaves it a
\* dependent of nothing.
C16_NullContent ==
    [][ (UpdateStep /\ call'.isNull)
            => /\ normalize(call'.path) \in trackedFilePaths'
               /\ ret' # RetParserError
               /\ IF normalize(call'.path) \in pruned'
                  THEN \A k \in Paths :
                          normalize(call'.path) \notin Dependents(dependencyMap', k)
                  ELSE \A k \in Paths :
                          normalize(call'.path) \in Dependents(dependencyMap', k)
                              <=> normalize(call'.path) \in Dependents(dependencyMap, k)
      ]_vars

\* An update without content for a tracked file that is gone from the disk
\* returned its dependents, and the imports recorded for it are still in the
\* map.
C16_Witness ==
    /\ Called
    /\ call.isNull
    /\ wasTracked
    /\ CalledPath \notin exists
    /\ ret.kind = "files"
    /\ ret.files # << >>
    /\ \E k \in Paths : CalledPath \in Dependents(dependencyMap, k)

(***************************************************************************)
(* C17  Stream order of the plugin.                                        *)
(***************************************************************************)
\* What the transform function is to have pushed for the file it was called
\* with: the file, then each dependent update returned, in that order.
ExpectedPushes ==
    << [dependent |-> FALSE, path |-> call.path] >>
    \o [i \in 1..Len(dependentFiles(ret)) |->
            [dependent |-> TRUE, path |-> dependentFiles(ret)[i]]]

\* C17: the transform function ends, for every file it is called with, having
\* pushed that file once, first, then each dependent update returned once
\* (none when it returned null), the callback being its last step.  (A file
\* on whose contents the parser throws is left out.)
C17_StreamOrder ==
    [][ (IsFile(call) /\ call' = NoFile /\ ret # RetParserError)
            => pushed = ExpectedPushes
      ]_vars

\* The same for the calls in which updateAndGetDependents returned: what was
\* pushed so far is the beginning of the expected pushes, and the callback
\* comes when all of them are made.
C17_StreamOrderOfReturnedCalls ==
    (Called /\ Returned(ret))
        => /\ Len(pushed) <= Len(ExpectedPushes)
           /\ pushed = SubSeq(ExpectedPushes, 1, Len(pushed))
           /\ readyForCallback <=> pushed = ExpectedPushes

(***************************************************************************)
(* Notions the properties of the parser are stated in.                     *)
(***************************************************************************)
\* The parser constructed last has answered a call.
Extracted == constructed = "ok" /\ extraction # NoExtraction

\* A configuration exists for the extension of the file: the parser holds
\* one under the extension in lower case.
ConfigurationExists(file) ==
    LET key == toLowerCase(path_extname(file.path))
    IN  key \in DOMAIN thisConfig /\ thisConfig[key].kind # "null"

\* That configuration.
ConfigurationOf(file) ==
    configOf(defaultConfig, thisConfig, toLowerCase(path_extname(file.path)))

\* A list of a configuration; one that is not there counts as empty.
ListOf(config, field) == IF field \in DOMAIN config THEN config[field] ELSE << >>

(***************************************************************************)
(* C18: the extraction returns null exactly when no configuration exists   *)
(* for the extension of the file; with a configuration and a content that  *)
(* yields no dependency reference it returns the empty list, not null.     *)
(***************************************************************************)
C18_NullIffNoConfiguration ==
    Extracted =>
        /\ extraction.result.kind = "null" <=> ~ConfigurationExists(extraction.file)
        /\ ( /\ ConfigurationExists(extraction.file)
             /\ parseFile(extraction.file, ConfigurationOf(extraction.file)).list = << >> )
           => /\ extraction.result.kind = "paths"
              /\ extraction.result.paths = << >>

\* A file of a configured type that imports nothing was given and the empty
\* list came back.
C18_Witness ==
    /\ Extracted
    /\ ConfigurationExists(extraction.file)
    /\ extraction.file.contents = <<"body", " ", "{", "}">>
    /\ extraction.result.kind = "paths"
    /\ extraction.result.paths = << >>

(***************************************************************************)
(* C19: for the extracted references R, all relative and none a URL, and   *)
(* the configured prefixes P, postfixes Q and base paths B, the candidate  *)
(* list before it is reduced to unique paths has                           *)
(* |R| * (1 + |P|) * (1 + |Q|) * (1 + |B|) entries, and it holds every     *)
(* form of every stage: each reference as it is and with each prefix, each *)
(* of these as it is and with each postfix, each of these as it is and     *)
(* under each base path.  Relative means what the base path stage takes it *)
(* to mean: no separator at the start and no colon.                        *)
(***************************************************************************)
Relative(reference) ==
    ~StartsWithSlash(reference) /\ ":" \notin Range(reference)

\* The candidate for the reference with the p-th prefix, the q-th postfix
\* and the b-th base path, 0 standing for none.
Candidate(reference, config, file, p, q, b) ==
    LET prefixed ==
            IF p = 0 THEN reference
            ELSE path_join(path_dirname(reference),
                           config.prefixes[p] \o path_basename(reference))
        postfixed ==
            IF q = 0 THEN prefixed ELSE prefixed \o config.postfixes[q]
    IN  IF b = 0 THEN postfixed
        ELSE path_resolve(path_dirname(file.base),
                          path_join(config.basePaths[b], postfixed))

C19_CandidateExpansion ==
    ( /\ Extracted
      /\ extraction.result.kind = "paths"
      /\ \A reference \in Range(extraction.result.references) : Relative(reference) )
    => LET file == extraction.file
           config == ConfigurationOf(file)
           references == extraction.result.references
           prefixes == ListOf(config, "prefixes")
           postfixes == ListOf(config, "postfixes")
           basePaths == ListOf(config, "basePaths")
           candidates == extraction.result.candidates
       IN  /\ Len(candidates)
                = Len(references) * (1 + Len(prefixes)) * (1 + Len(postfixes))
                    * (1 + Len(basePaths))
           /\ \A i \in 1..Len(references), p \in 0..Len(prefixes),
                 q \in 0..Len(postfixes), b \in 0..Len(basePaths) :
                 Candidate(references[i], config, file, p, q, b) \in Range(candidates)

\* Two relative references were expanded with a prefix, two postfixes and
\* two base paths, to 2 * 2 * 3 * 3 candidates.
C19_Witness ==
    /\ Extracted
    /\ extraction.result.kind = "paths"
    /\ Len(extraction.result.references) = 2
    /\ \A reference \in Range(extraction.result.references) : Relative(reference)
    /\ Len(ListOf(ConfigurationOf(extraction.file), "prefixes")) = 1
    /\ Len(ListOf(ConfigurationOf(extraction.file), "postfixes")) = 2
    /\ Len(ListOf(ConfigurationOf(extraction.file), "basePaths")) = 2
    /\ Len(extraction.result.candidates) = 36

(***************************************************************************)
(* C20: with the default ".scss" configuration, /project/src/main.scss     *)
(* with file.base /project/src that imports "colors" gets a result that    *)
(* holds /project/src/_colors.scss, /project/src/_colors.sass,             *)
(* /project/src/colors.scss and /project/src/colors.sass.                  *)
(***************************************************************************)
MainImportsColors ==
    [path |-> MainScss, base |-> ParserBase,
     contents |-> ImportStatement(<< Colors >>)]

DefaultScss ==
    /\ thisConfig[".scss"] = DefaultObject
    /\ defaultConfig[".scss"] = InitialDefaultConfig[".scss"]

C20_DefaultScssScenario ==
    ( Extracted /\ DefaultScss /\ extraction.file = MainImportsColors )
    => /\ extraction.result.kind = "paths"
       /\ { ParserBase \o <<"/", "_", "colors", ".scss">>,
            ParserBase \o <<"/", "_", "colors", ".sass">>,
            ParserBase \o <<"/", "colors", ".scss">>,
            ParserBase \o <<"/", "colors", ".sass">> }
          \subseteq Range(extraction.result.paths)

\* The file of the scenario was given to a parser with the default ".scss"
\* configuration and a list of paths came back.
C20_Witness ==
    /\ Extracted
    /\ DefaultScss
    /\ extraction.file = MainImportsColors
    /\ extraction.result.kind = "paths"
    /\ Len(extraction.result.paths) = 6

(***************************************************************************)
(* C21: the candidate list is reduced to unique normalized forms and then  *)
(* every candidate is returned resolved against the directory of the       *)
(* importing file; as stated, this includes the candidates of the base     *)
(* path stage: a relative reference joined to a relative base directory    *)
(* comes back as a path below the directory of the importing file.         *)
(***************************************************************************)
\* The directory of the importing file.
ImportingDirectory == path_dirname(extraction.file.path)

\* Every candidate comes back resolved against the directory of the
\* importing file, and there are as many paths as normalized forms.
ResolvedAfterUnique ==
    /\ \A candidate \in Range(extraction.result.candidates) :
          path_resolve(ImportingDirectory, candidate)
              \in Range(extraction.result.paths)
    /\ \A dependencyPath \in Range(extraction.result.paths) :
          \E candidate \in Range(extraction.result.candidates) :
              dependencyPath = path_resolve(ImportingDirectory, candidate)
    /\ Len(extraction.result.paths)
          = Cardinality({ path_normalize(candidate) :
                            candidate \in Range(extraction.result.candidates) })

\* C21 as stated: a relative reference joined to a relative base directory
\* comes back resolved against the directory of the importing file.
C21_ResolutionAsStated ==
    ( Extracted /\ extraction.result.kind = "paths" )
    => LET file == extraction.file
           config == ConfigurationOf(file)
           references == extraction.result.references
           basePaths == ListOf(config, "basePaths")
       IN  /\ ResolvedAfterUnique
           /\ \A i \in 1..Len(references), b \in 1..Len(basePaths) :
                 ( Relative(references[i]) /\ Relative(basePaths[b]) )
                 => path_resolve(ImportingDirectory,
                                 path_join(basePaths[b], references[i]))
                        \in Range(extraction.result.paths)

\* C21, amended: the candidates of the base path stage are resolved against
\* the directory above file.base when they are made, so a relative
\* reference joined to a base directory comes back as a path below that
\* directory, whatever the directory of the importing file is; the list is
\* reduced to unique normalized forms before the remaining relative
\* candidates are resolved against the directory of the importing file.
C21_Resolution ==
    ( Extracted /\ extraction.result.kind = "paths" )
    => LET file == extraction.file
           config == ConfigurationOf(file)
           references == extraction.result.references
           basePaths == ListOf(config, "basePaths")
       IN  /\ ResolvedAfterUnique
           /\ \A i \in 1..Len(references), b \in 1..Len(basePaths) :
                 Relative(references[i])
                 => path_resolve(path_dirname(file.base),
                                 path_join(basePaths[b], references[i]))
                        \in Range(extraction.result.paths)

\* main.scss in /project/src imports "colors", "lib" is a base path, and
\* /project/lib/colors came back.
C21_Witness ==
    /\ Extracted
    /\ extraction.file = MainImportsColors
    /\ <<"lib">> \in Range(ListOf(ConfigurationOf(extraction.file), "basePaths"))
    /\ <<"/", "project", "/", "lib", "/", "colors">> \in Range(extraction.result.paths)
    /\ <<"/", "project", "/", "src", "/", "lib", "/", "colors">>
          \notin Range(extraction.result.paths)

(***************************************************************************)
(* C22: an extracted reference is dropped if and only if it begins with    *)
(* one of http:, https:, ftp: and file:; a reference that holds such text  *)
(* after its first character is kept.                                      *)
(***************************************************************************)
BeginsWithScheme(reference) ==
    /\ Len(reference) >= 2
    /\ reference[1] \in {"http", "https", "ftp", "file"}
    /\ reference[2] = ":"

\* The reference is not among those handed to the variant stages.
Dropped(reference) == reference \notin Range(extraction.result.references)

\* C22 as stated: dropped if and only if the reference begins with a scheme.
C22_UrlFilter ==
    ( Extracted /\ extraction.result.kind = "paths" )
    => \A reference \in Range(extraction.result.parsed) :
          Dropped(reference) <=> BeginsWithScheme(reference)

\* C22, what the filter does: a reference is dropped if and only if the text of
\* a scheme followed by a colon occurs anywhere in it.
C22_UrlFilterAnywhere ==
    ( Extracted /\ extraction.result.kind = "paths" )
    => \A reference \in Range(extraction.result.parsed) :
          /\ BeginsWithScheme(reference) => Dropped(reference)
          /\ Dropped(reference) <=> matchesUrl(reference)

\* "profile:" was extracted and dropped.
C22_DroppedProfile ==
    /\ Extracted
    /\ extraction.result.kind = "paths"
    /\ <<"profile", ":">> \in Range(extraction.result.parsed)
    /\ Dropped(<<"profile", ":">>)

(***************************************************************************)
(* C23: where the custom configuration supplies some fields for a file     *)
(* type that has a default, each supplied field replaces the default field *)
(* as a whole and every other field keeps its default value.               *)
(***************************************************************************)
\* The entries of the custom configuration that override a default.
Overrides(config) ==
    { i \in 1..Len(config) :
        ~config[i].falsy /\ config[i].key \in DOMAIN InitialDefaultConfig }

\* The fields of the effective configuration of the entry's file type are
\* the supplied ones where supplied and those of defaults elsewhere.
PerField(entry, effective, defaults) ==
    \A field \in DOMAIN defaults[entry.key] \cup DOMAIN entry.object.config :
        /\ field \in DOMAIN effective
        /\ effective[field] =
              IF field \in DOMAIN entry.object.config
              THEN entry.object.config[field]
              ELSE defaults[entry.key][field]

\* C23 as stated: the fields that were not supplied have the values of the
\* default configuration of the package.
C23_PerFieldOverride ==
    constructed = "ok"
    => \A i \in Overrides(custom) :
          PerField(custom[i], configOf(defaultConfig, thisConfig, custom[i].key),
                   InitialDefaultConfig)

\* C23, what the constructor does: the fields that were not supplied have
\* the values that defaultConfig held when the constructor began, which
\* are those an earlier constructor has left there.
C23_OverrideOfCurrentDefaults ==
    [][ ( extraction = NoExtraction /\ extraction' = NoExtraction
          /\ constructed' = "ok" )
        => \A i \in Overrides(custom') :
              PerField(custom'[i],
                       configOf(defaultConfig', thisConfig', custom'[i].key),
                       defaultConfig) ]_vars

\* A parser constructed with prefixes for ".scss" only has the base paths
\* that an earlier parser was given.
C23_KeptEarlierBasePaths ==
    /\ constructed = "ok"
    /\ custom = << Entry(".scss", CustomObject([prefixes |-> << <<"p-">> >>])) >>
    /\ configOf(defaultConfig, thisConfig, ".scss").basePaths # << >>
    /\ configOf(defaultConfig, thisConfig, ".scss").prefixes = << <<"p-">> >>

(***************************************************************************)
(* C24: a configuration for a file type that has none yet, with missing or *)
(* empty parserSteps, makes the constructor of the parser fail, before any *)
(* file is processed; with at least one step the constructor succeeds.     *)
(***************************************************************************)
\* The entries of the custom configuration for file types without a
\* configuration.
NewTypes(config) ==
    { i \in 1..Len(config) :
        ~config[i].falsy /\ config[i].key \notin DOMAIN InitialDefaultConfig }

NumberOfSteps(entry) ==
    IF "parserSteps" \in DOMAIN entry.object.config
    THEN Len(entry.object.config.parserSteps)
    ELSE 0

\* The number of steps of a configuration object.
StepsOf(config) ==
    IF "parserSteps" \in DOMAIN config THEN Len(config.parserSteps) ELSE 0

\* Entry i of the configuration is applied to a key that has no configuration
\* at that moment: the key is no default and no earlier entry gave it one, or
\* the last earlier entry for it removed it.
FirstRegistration(config, i) ==
    /\ ~config[i].falsy
    /\ LET earlier == { k \in 1..(i - 1) : config[k].key = config[i].key }
       IN  IF earlier = {}
           THEN config[i].key \notin DOMAIN InitialDefaultConfig
           ELSE config[CHOOSE k \in earlier : \A m \in earlier : m <= k].falsy

\* A step of the constructor of the parser.
ConstructorStep ==
    /\ extraction = NoExtraction
    /\ extraction' = NoExtraction
    /\ constructed' # "no"

C24_ErrorWithSteps ==
    /\ constructed = "Error"
    /\ \A i \in NewTypes(custom) : NumberOfSteps(custom[i]) >= 1
    /\ NewTypes(custom) # {}

PreRegistered ==
    (trackedFilePaths' \ trackedFilePaths) \ {normalize(call'.path)}

\* C26: a parsed update marks its own path and exactly the dependencies
\* that are neither tracked nor on disk; an update of an untracked path
\* that has dependents in the map returns null.
C26_PreRegistration ==
    [][ UpdateStep
        => /\ IsParsed(call')
              => /\ \A d \in call'.imports \ {normalize(call'.path)} :
                        d \in PreRegistered
                        <=> (d \notin trackedFilePaths /\ d \notin exists)
                 /\ PreRegistered \subseteq call'.imports
                 /\ normalize(call'.path) \in trackedFilePaths'
           /\ ( /\ normalize(call'.path) \notin trackedFilePaths
                /\ Dependents(dependencyMap, normalize(call'.path)) # {}
                /\ ret' # RetParserError )
              => ret' = RetNull ]_vars

\* A file on disk that an updated, existing file depends on is updated for
\* the first time and null comes back; another dependency, which was missing,
\* has been pre-registered.
C26_Witness ==
    /\ Called
    /\ ~wasTracked
    /\ ret = RetNull
    /\ CalledPath \in exists
    /\ firstFor = ""
    /\ \E a \in (Dependents(dependencyMap, CalledPath) \cap exists) \ {CalledPath} :
          a \in trackedFilePaths
    /\ \E d \in DOMAIN forwardRef : d \in trackedFilePaths /\ d \notin exists

(***************************************************************************)
(* C27: an update, without content, of a tracked path whose file is no     *)
(* longer on disk returns every existing file that imports it directly or  *)
(* through existing files.                                                 *)
(***************************************************************************)
\* The call was for a tracked path, without content, the file being gone.
DeletedFileUpdated ==
    /\ Called
    /\ call.isNull
    /\ wasTracked
    /\ CalledPath \notin exists

\* C27: such a call returns exactly the existing direct and indirect
\* dependents of the path.
C27_DeletedFileDependents ==
    DeletedFileUpdated
    => /\ ret.kind = "files"
       /\ Range(ret.files) = Reach(dependencyMap, exists, CalledPath)

\* C27, for the calls that return: the returned files are those.
C27_DeletedFileDependentsWhenReturned ==
    (DeletedFileUpdated /\ ret # RetRangeError)
    => /\ ret.kind = "files"
       /\ Range(ret.files) = Reach(dependencyMap, exists, CalledPath)

\* The update of a deleted file returned a direct and an indirect dependent.
C27_ReturnedForDeleted ==
    /\ DeletedFileUpdated
    /\ ret.kind = "files"
    /\ \E x \in Range(ret.files) :
          x \notin Dependents(dependencyMap, CalledPath)

\* The update of a deleted file ended with the RangeError.
C27_OverflowForDeleted == DeletedFileUpdated /\ ret = RetRangeError

(***************************************************************************)
(* C29: for a file with content of a configured extension, every update    *)
(* after the first for its path returns a list, never null; null comes     *)
(* back only at the first sighting of an untracked path or for an          *)
(* extension without configuration.                                        *)
(***************************************************************************)
\* The step is an update, with content that the parser reads, of a path
\* that an earlier call has marked as tracked.
LaterUpdateStep ==
    /\ UpdateStep
    /\ IsParsed(call')
    /\ normalize(call'.path) \in trackedFilePaths

\* null comes back only for an untracked path or an unconfigured extension.
NullOnlyWhenUnseenOrUnsupported ==
    (UpdateStep /\ ret' = RetNull)
    => \/ normalize(call'.path) \notin trackedFilePaths
       \/ extname(call'.path) \notin ConfiguredExtensions

\* C29: a later update returns a list.
C29_LaterUpdateReturnsList ==
    [][ /\ LaterUpdateStep => ret'.kind = "files"
        /\ NullOnlyWhenUnseenOrUnsupported ]_vars

\* C29, what holds of a later update: it does not return null; it returns
\* a list or ends with the RangeError of the traversal.
C29_LaterUpdateNotNull ==
    [][ /\ LaterUpdateStep => ret'.kind \in {"files", "RangeError"}
        /\ NullOnlyWhenUnseenOrUnsupported ]_vars

\* A later update of a file with content returned the empty list.
C29_ReturnedEmptyList ==
    /\ Called
    /\ IsParsed(call)
    /\ wasTracked
    /\ ret = RetFiles(<< >>)

(***************************************************************************)
(* C30: every path that is a dependent in the dependency map is a tracked  *)
(* path; a key of the map need not be.                                     *)
(***************************************************************************)
\* C30: the dependents of every entry are tracked paths.
C30_DependentsAreTracked ==
    \A k \in DOMAIN dependencyMap :
        Range(dependencyMap[k]) \subseteq trackedFilePaths

\* The map has an entry whose key is not a tracked path.
C30_Witness ==
    \E k \in DOMAIN dependencyMap :
        /\ k \notin trackedFilePaths
        /\ dependencyMap[k] # << >>
        /\ Range(dependencyMap[k]) \subseteq trackedFilePaths

(***************************************************************************)
(* C28: the plugin function creates the tracker and its parser on its      *)
(* first invocation only; every later invocation reuses the tracked paths  *)
(* and the dependency map, and its parserConfig has no effect on parsing.  *)
(***************************************************************************)
\* The step is an invocation of the plugin function: one that returns a
\* stream, or one that the constructor of the parser ends with its Error.
RunStep ==
    \/ streams' = streams + 1
    \/ /\ dependencyTracker = "null"
       /\ constructed' = "Error"
       /\ call = NoFile
       /\ exists' = exists

\* The invocation leaves the tracker and its parser as they are.
TrackerReused ==
    /\ dependencyTracker' = "created"
    /\ UNCHANGED <<dependencyTracker, trackedFilePaths, dependencyMap,
                   thisConfig, defaultConfig, constructed, custom>>

\* C28 as stated: the first invocation creates the tracker, and every later
\* invocation reuses it.
C28_OneTrackerAsStated ==
    [][ RunStep
        => IF constructed = "no"
           THEN dependencyTracker' = "created"
           ELSE TrackerReused ]_vars

\* C28, amended: an invocation creates the tracker and its parser if and
\* only if no tracker exists yet, which is so at the first invocation and
\* after every invocation in which the constructor of the parser threw its
\* Error; the tracker exists afterwards unless the constructor throws again.
\* An invocation that finds a tracker reuses its tracked paths and its
\* dependency map, and its parserConfig has no effect.
C28_OneTracker ==
    [][ RunStep
        => IF dependencyTracker = "created"
           THEN TrackerReused
           ELSE /\ dependencyTracker' = "created" <=> constructed' = "ok"
                /\ dependencyTracker' = "created"
                   => /\ trackedFilePaths' = {}
                      /\ dependencyMap' = << >>
                      /\ thisConfig' = newDependencyParser(defaultConfig, custom').config ]_vars

\* A file without content passes through the second stream, and a dependent
\* is returned whose edge was in the map when that stream was made.
C28_Witness ==
    /\ streams = 2
    /\ Called
    /\ call.isNull
    /\ ret.kind = "files"
    /\ \E x \in Range(ret.files) : x \in Dependents(mapAtRun, CalledPath)

(***************************************************************************)
(* C25: where the custom configuration gives a falsy value for a file type *)
(* the type is not supported: the parser returns null for every file of    *)
(* it, and an update for such a file returns null and adds no edge.        *)
(***************************************************************************)
\* The configuration that the parser of the tracker was made with switches
\* the file type off.
Removed(key) ==
    /\ dependencyTracker = "created"
    /\ \E i \in 1..Len(custom) :
          /\ custom[i].falsy
          /\ custom[i].key = key
          /\ \A k \in (i + 1)..Len(custom) : custom[k].key # key

\* The parser returns null for every file of the type.
ExtractReturnsNull(key) ==
    \A file \in ParserFiles :
        configKey(file) = key
        => DependencyParser_getDependencyFilePaths(defaultConfig, thisConfig, file)
              = NullResult

\* The step adds no edge to the dependency map.
NoEdgeAdded ==
    \A k \in DOMAIN dependencyMap' :
        /\ k \in DOMAIN dependencyMap
        /\ Range(dependencyMap'[k]) \subseteq Range(dependencyMap[k])

\* C25 as stated: every update for a file of a type that was switched off
\* returns null and adds no edge.
C25_RemovedSupportAsStated ==
    [][ (UpdateStep /\ Removed(extname(call'.path)))
        => /\ ExtractReturnsNull(extname(call'.path))
           /\ ret' = RetNull
           /\ NoEdgeAdded ]_vars

\* C25, amended: the parser returns null for every file of the type, and an
\* update with content for such a file returns null and leaves the map as
\* it is.  An update without content does not ask the parser: it adds no
\* edge, and returns null only where the path was not tracked.
C25_RemovedSupport ==
    [][ (UpdateStep /\ Removed(extname(call'.path)))
        => /\ ExtractReturnsNull(extname(call'.path))
           /\ NoEdgeAdded
           /\ ~call'.isNull
              => ret' = RetNull /\ dependencyMap' = dependencyMap
           /\ call'.isNull
              => (ret' = RetNull
                  <=> normalize(call'.path) \notin trackedFilePaths) ]_vars

\* A file with content of a type that was switched off was updated, its
\* path being tracked and having a dependent, and null came back.
C25_Witness ==
    /\ Called
    /\ ~call.isNull
    /\ Removed(extname(call.path))
    /\ wasTracked
    /\ Dependents(dependencyMap, CalledPath) # {}
    /\ ret = RetNull

(***************************************************************************)
(* C31: logDependents, recursive or not, and logDependencyMap leave the    *)
(* tracked paths and the dependency map as they are, also when a listed    *)
(* dependent is not on disk.                                               *)
(***************************************************************************)
\* Whatever path logDependents is called for in this state, and
\* logDependencyMap, leave the tracked paths and the map as they are.
DiagnosticsReadOnly ==
    /\ \A filePath \in Paths, recursive \in BOOLEAN :
          \E out \in { logDependentsOutcome(trackedFilePaths, dependencyMap,
                                            exists, filePath, recursive) } :
              /\ out.tracked = trackedFilePaths
              /\ out.map = dependencyMap
    /\ \E out \in { logDependencyMapOutcome(trackedFilePaths, dependencyMap) } :
          /\ out.tracked = trackedFilePaths
          /\ out.map = dependencyMap

\* The step is one in which the plugin calls a diagnostic.
LogStep ==
    \/ /\ IsFile(call)
       /\ call' = call
       /\ pushed = << >>
       /\ pushed' = << >>
    \/ call = NoFile /\ call' = EndOfStream

\* C31: the diagnostics are read-only, in every state and for every path,
\* and so are the steps in which the plugin calls them.
C31_DiagnosticsReadOnly ==
    [][ /\ DiagnosticsReadOnly
        /\ LogStep => UNCHANGED <<trackedFilePaths, dependencyMap>> ]_vars

\* logDependencyMap has logged a map in which a dependent is not on disk,
\* logDependents lists such a dependent for some path, and the map is as
\* it was logged.
C31_Witness ==
    /\ log.kind = "map"
    /\ log.map = dependencyMap
    /\ \E k \in DOMAIN dependencyMap :
          \E x \in Range(dependencyMap[k]) :
              /\ x \notin exists
              /\ x \in Range(logDependentsOutcome(trackedFilePaths, dependencyMap,
                                                  exists, k, TRUE).log.paths)

(***************************************************************************)
(* C32: constructing a parser with a custom configuration that overrides   *)
(* fields of a default file type leaves the shared default configuration   *)
(* as it is, so a parser constructed afterwards without a custom           *)
(* configuration has the original default fields.                          *)
(***************************************************************************)
\* C32: defaultConfig is never changed, and a parser constructed without a
\* custom configuration has the fields of the original defaults.
C32_DefaultsUnaltered ==
    /\ defaultConfig = InitialDefaultConfig
    /\ (constructed = "ok" /\ custom = << >>)
       => \A key \in DOMAIN InitialDefaultConfig :
             /\ hasConfig(thisConfig, key)
             /\ configOf(defaultConfig, thisConfig, key) = InitialDefaultConfig[key]

\* C32, what holds instead: defaultConfig changes only in a constructor
\* whose custom configuration overrides a default file type.
C32_AlteredOnlyByOverride ==
    [][ defaultConfig' # defaultConfig => Overrides(custom') # {} ]_vars

\* A parser constructed without a custom configuration has base paths for
\* ".scss" that an earlier parser was given.
C32_DefaultsAltered ==
    /\ constructed = "ok"
    /\ custom = << >>
    /\ configOf(defaultConfig, thisConfig, ".scss").basePaths
          = << <<"lib">>, <<"/", "shared">> >>

(***************************************************************************)
(* C33: for every RegExp step and every text the matching loop of          *)
(* getMatches ends, also for a RegExp without the g flag such as the third *)
(* step of the example of the README, so the extraction with that example  *)
(* returns for every file.                                                 *)
(***************************************************************************)
\* C33: no call of getDependencyFilePaths is left in its matching loop.
C33_MatchingLoopEnds ==
    Extracted => extraction.result.kind # "hangs"

\* The steps of the configuration are RegExps with the g flag, or functions.
AllGlobal(config) ==
    \A i \in 1..Len(config.parserSteps) :
        isFunction(config.parserSteps[i]) \/ config.parserSteps[i].global

\* C33, what holds instead: the loop does not end exactly where a step
\* without the g flag is reached with a text that it matches.
C33_EndsUnlessNotGlobal ==
    (Extracted /\ ConfigurationExists(extraction.file))
    => /\ AllGlobal(ConfigurationOf(extraction.file))
          => extraction.result.kind = "paths"
       /\ extraction.result.kind = "hangs"
          => \E i \in 1..Len(ConfigurationOf(extraction.file).parserSteps) :
                LET steps == ConfigurationOf(extraction.file).parserSteps
                    before == applySteps(<< extraction.file.contents >>,
                                         SubSeq(steps, 1, i - 1))
                IN  /\ ~isFunction(steps[i])
                    /\ ~steps[i].global
                    /\ ~before.hangs
                    /\ \E text \in Range(before.list) :
                          exec(steps[i].source, text, 1).found

\* With the example of the README, the call for main.scss importing
\* "colors" is in its matching loop for ever.
C33_ReadmeExampleHangs ==
    /\ Extracted
    /\ extraction.file = MainImportsColors
    /\ ConfigurationOf(extraction.file) = ReadmeExample
    /\ extraction.result.kind = "hangs"

(***************************************************************************)
(* C34: after a constructor that did not throw, every supported extension  *)
(* has at least one step, also a default whose parserSteps were            *)
(* overridden; the content of a file is never returned as a dependency.    *)
(***************************************************************************)
\* The extensions the parser constructed last supports.
Supported == { key \in DOMAIN thisConfig : hasConfig(thisConfig, key) }

\* The call returned the content of the file among the references it
\* expands and resolves.
ContentReturned ==
    /\ Extracted
    /\ extraction.result.kind = "paths"
    /\ extraction.file.contents \in Range(extraction.result.references)

\* C34: every supported extension of a parser constructed without error has
\* at least one step, and no call returns the content of the file as a
\* dependency.
C34_SupportedHaveSteps ==
    /\ constructed = "ok"
       => \A key \in Supported :
             StepsOf(configOf(defaultConfig, thisConfig, key)) >= 1
    /\ ~ContentReturned

\* Entry i of the configuration overrides the steps of a key that has a
\* configuration with an empty list.
EmptiesSteps(config, i) ==
    /\ ~config[i].falsy
    /\ ~FirstRegistration(config, i)
    /\ "parserSteps" \in DOMAIN config[i].object.config
    /\ config[i].object.config.parserSteps = << >>

\* C34, what holds instead: a supported extension is without steps only
\* where the custom configuration overrode the steps of an extension that
\* had a configuration with an empty list; a call for such an extension
\* takes the content of the file for its one reference, and no other call
\* returns the content.
C34_StepsUnlessOverridden ==
    /\ constructed = "ok"
       => \A key \in Supported :
             StepsOf(configOf(defaultConfig, thisConfig, key)) = 0
             => \E i \in 1..Len(custom) :
                   custom[i].key = key /\ EmptiesSteps(custom, i)
    /\ (Extracted /\ extraction.result.kind = "paths"
            /\ ConfigurationExists(extraction.file))
       => /\ ContentReturned
             => StepsOf(ConfigurationOf(extraction.file)) = 0
          /\ StepsOf(ConfigurationOf(extraction.file)) = 0
             => extraction.result.parsed = << extraction.file.contents >>

\* The parser was given an empty list of steps for the default .less, and
\* the call for main.less returned the content of the file.
C34_ContentReturned ==
    /\ ContentReturned
    /\ path_extname(extraction.file.path) = ".less"
    /\ extraction.file.contents # << >>
    /\ StepsOf(ConfigurationOf(extraction.file)) = 0

=============================================================================
